---- MODULE Spec2Model ----
(***************************************************************************)
(* VaultSeek core: the arena-backed FileTree, the variable-byte postings   *)
(* codec, the BigramIndex and the Searcher pipeline.                       *)
(*                                                                         *)
(* Strings are sequences of byte values (ASCII), so that byte order and    *)
(* lower-casing are computed rather than assumed.  Option<T> is <<>> for   *)
(* None and <<v>> for Some(v).                                             *)
(***************************************************************************)
EXTENDS Integers, Sequences, FiniteSets, TLC

VARIABLES elements, strbuf, built, index, num_elements, sorter, call, ret,
          postings_list, cpl, decoded, threads, mutex, cache

vars == <<elements, strbuf, built, index, num_elements, sorter, call, ret,
          postings_list, cpl, decoded, threads, mutex, cache>>

treeVars == <<elements, strbuf>>
indexVars == <<built, index, num_elements, sorter>>
codecVars == <<postings_list, cpl, decoded>>
\* the threads that call into one Searcher, the holders of its locks, and
\* the web handler's LastSearchCache
threadVars == <<threads, mutex, cache>>

----------------------------------------------------------------------------
(* Bounds of the model *)

\* largest number of elements (root included) a tree is grown to
MaxElems == 4
\* largest number of segments of a path handed to add_or_update_recursive
MaxSegs == 2
\* largest tree of the runs that vary the metadata
MaxMetaElems == 3

----------------------------------------------------------------------------
(* Generic helpers *)

Min(S) == CHOOSE x \in S : \A y \in S : x <= y
Max(S) == CHOOSE x \in S : \A y \in S : x >= y

RECURSIVE SeqsUpTo(_, _)
SeqsUpTo(S, n) ==
    IF n = 0 THEN {<<>>}
    ELSE LET shorter == SeqsUpTo(S, n - 1)
         IN shorter \cup {Append(s, c) : s \in {t \in shorter : Len(t) = n - 1}, c \in S}

\* str::cmp: lexicographic order of the raw bytes; -1, 0, 1
StrCmp(a, b) ==
    LET n == IF Len(a) < Len(b) THEN Len(a) ELSE Len(b)
        diffs == {k \in 1..n : a[k] # b[k]}
    IN IF diffs = {}
       THEN (IF Len(a) < Len(b) THEN -1 ELSE IF Len(a) > Len(b) THEN 1 ELSE 0)
       ELSE (IF a[Min(diffs)] < b[Min(diffs)] THEN -1 ELSE 1)

\* Vec::insert(index, x), index counted from 0
InsertAt(s, i, x) == SubSeq(s, 1, i) \o <<x>> \o SubSeq(s, i + 1, Len(s))

----------------------------------------------------------------------------
(* FileTree *)

SLASH == 47
BACKSLASH == 92
RootName == <<82, 111, 111, 116>>

None == <<>>
Some(v) == <<v>>

\* Filename(start, end): a byte range of strbuf
Filename(start, end) == <<start, end>>

Element(filename, size, date_modified, date_created, attributes, parent, children) ==
    [filename |-> filename, size |-> size, date_modified |-> date_modified,
     date_created |-> date_created, attributes |-> attributes,
     parent |-> parent, children |-> children]

\* a tree value: the two fields of struct FileTree
Tree(es, sb) == [elements |-> es, strbuf |-> sb]

\* a new_filename that writes the name at the front of the arena
new_filename_at_front(t, string) ==
    [tree |-> Tree(t.elements, string \o t.strbuf),
     filename |-> Filename(0, Len(string))]

\* FileTree::new_filename: append the bytes, hand back the range
new_filename(t, string) ==
    [tree |-> Tree(t.elements, t.strbuf \o string),
     filename |-> Filename(Len(t.strbuf), Len(t.strbuf) + Len(string))]

\* FileTree::add_element: push, return the index
add_element(t, element) ==
    [tree |-> Tree(Append(t.elements, element), t.strbuf),
     index |-> Len(t.elements)]

\* FileTree::add_root on the empty arena
add_root(t) ==
    LET nf == new_filename(t, RootName)
    IN add_element(nf.tree, Element(nf.filename, None, None, None, 0, 0, <<>>)).tree

\* FileTree::with_capacity
with_capacity == add_root(Tree(<<>>, <<>>))

\* FileTree::filename_as_str / the slice get_filename reads (index in range)
filename_as_str(t, filename) == SubSeq(t.strbuf, filename[1] + 1, filename[2])
FilenameOf(t, i) == filename_as_str(t, t.elements[i + 1].filename)

\* path.split(&['\\', '/']): the segments between separators, empty ones kept
RECURSIVE Split(_)
Split(path) ==
    LET seps == {k \in 1..Len(path) : path[k] \in {BACKSLASH, SLASH}}
    IN IF seps = {} THEN <<path>>
       ELSE <<SubSeq(path, 1, Min(seps) - 1)>>
            \o Split(SubSeq(path, Min(seps) + 1, Len(path)))

\* The children list is ordered by filename (not necessarily strictly)
NamesSorted(names) == \A k \in 1..(Len(names) - 1) : StrCmp(names[k], names[k + 1]) <= 0

\* slice::binary_search_by_key by its documented contract: on a sorted slice
\* Ok(position of a match) or Err(insertion point); with several matches any of
\* them; on an unsorted slice the result is unspecified
BinarySearchResults(names, key) ==
    LET hits == {k \in 0..(Len(names) - 1) : names[k + 1] = key}
        oks == {[ok |-> TRUE, index |-> k] : k \in hits}
    IN IF NamesSorted(names)
       THEN IF hits # {} THEN oks
            ELSE {[ok |-> FALSE,
                   index |-> Cardinality({k \in 1..Len(names) : StrCmp(names[k], key) < 0})]}
       ELSE oks \cup {[ok |-> FALSE, index |-> k] : k \in 0..Len(names)}

\* as UpsertStep, but the new child is pushed at the end of the children list
UpsertStepPush(t, current_index, part, r) ==
    IF r.ok
    THEN [tree |-> t, current_index |-> t.elements[current_index + 1].children[r.index + 1]]
    ELSE LET nf == new_filename(t, part)
             ae == add_element(nf.tree,
                       Element(nf.filename, None, None, None, 0, current_index, <<>>))
             es == ae.tree.elements
             withChild ==
                 [es EXCEPT ![current_index + 1].children = Append(@, ae.index)]
         IN [tree |-> Tree(withChild, ae.tree.strbuf), current_index |-> ae.index]

\* an upsert step that creates the element and leaves it out of the
\* children list
UpsertStepUnlinked(t, current_index, part, r) ==
    IF r.ok
    THEN [tree |-> t, current_index |-> t.elements[current_index + 1].children[r.index + 1]]
    ELSE LET nf == new_filename(t, part)
             ae == add_element(nf.tree,
                       Element(nf.filename, None, None, None, 0, current_index, <<>>))
         IN [tree |-> ae.tree, current_index |-> ae.index]

\* One iteration of the loop of add_or_update_recursive for the search
\* outcome r: descend on Ok, create and insert on Err
UpsertStep(t, current_index, part, r) ==
    IF r.ok
    THEN [tree |-> t, current_index |-> t.elements[current_index + 1].children[r.index + 1]]
    ELSE LET nf == new_filename(t, part)
             ae == add_element(nf.tree,
                       Element(nf.filename, None, None, None, 0, current_index, <<>>))
             es == ae.tree.elements
             withChild ==
                 [es EXCEPT ![current_index + 1].children =
                     InsertAt(es[current_index + 1].children, r.index, ae.index)]
         IN [tree |-> Tree(withChild, ae.tree.strbuf), current_index |-> ae.index]

\* The loop over the segments: the set of possible (tree, current_index)
RECURSIVE UpsertWalk(_, _, _)
UpsertWalk(t, current_index, parts) ==
    IF parts = <<>> THEN {[tree |-> t, current_index |-> current_index]}
    ELSE LET kids == t.elements[current_index + 1].children
             names == [k \in 1..Len(kids) |-> FilenameOf(t, kids[k])]
         IN UNION {LET s == UpsertStep(t, current_index, Head(parts), r)
                   IN UpsertWalk(s.tree, s.current_index, Tail(parts))
                   : r \in BinarySearchResults(names, Head(parts))}

\* bitwise or of two attribute masks
RECURSIVE BitOr(_, _)
BitOr(a, b) ==
    IF a = 0 THEN b
    ELSE IF b = 0 THEN a
    ELSE (IF a % 2 = 1 \/ b % 2 = 1 THEN 1 ELSE 0) + 2 * BitOr(a \div 2, b \div 2)

\* as SetMetadata, but the attribute mask is or-ed into the previous one
SetMetadataOr(e, m) ==
    [e EXCEPT !.size = m.size, !.date_modified = m.date_modified,
              !.date_created = m.date_created,
              !.attributes = BitOr(@, m.attributes)]

\* The final metadata overwrite of add_or_update_recursive
SetMetadata(e, m) ==
    [e EXCEPT !.size = m.size, !.date_modified = m.date_modified,
              !.date_created = m.date_created, !.attributes = m.attributes]

\* FileTree::add_or_update_recursive: the possible (tree, returned index)
add_or_update_recursive(t, path, m) ==
    {[tree |-> Tree([w.tree.elements EXCEPT ![w.current_index + 1] = SetMetadata(@, m)],
                    w.tree.strbuf),
      index |-> w.current_index]
     : w \in UpsertWalk(t, 0, Split(path))}

\* as add_child, but the child's own index is written into its parent field
add_child_self_parent(t, parent, child) ==
    LET child_index == Len(t.elements)
        es == [t.elements EXCEPT ![parent + 1].children = Append(@, child_index)]
    IN [tree |-> Tree(Append(es, [child EXCEPT !.parent = child_index]), t.strbuf),
        index |-> child_index]

\* FileTree::add_child: push at the end of the parent's children, no search
add_child(t, parent, child) ==
    LET child_index == Len(t.elements)
        es == [t.elements EXCEPT ![parent + 1].children = Append(@, child_index)]
    IN [tree |-> Tree(Append(es, [child EXCEPT !.parent = parent]), t.strbuf),
        index |-> child_index]

\* FileTree::get
get(t, i) == IF i < Len(t.elements) THEN Some(t.elements[i + 1]) ELSE None

\* FileTree::get_filename: self.elements[index] panics when out of range
get_filename(t, i) ==
    IF i < Len(t.elements) THEN [kind |-> "str", val |-> FilenameOf(t, i)]
    ELSE [kind |-> "panic", val |-> <<>>]

\* The loop of get_full_path from current_index with the path built so far
RECURSIVE FullPathWalk(_, _, _)
FullPathWalk(t, current_index, path) ==
    IF current_index = 0 THEN [kind |-> "str", val |-> path]
    ELSE IF current_index >= Len(t.elements) THEN [kind |-> "panic", val |-> <<>>]
    ELSE LET element == t.elements[current_index + 1]
             name == filename_as_str(t, element.filename)
         IN FullPathWalk(t, element.parent,
                IF path # <<>> THEN name \o <<BACKSLASH>> \o path ELSE name)

\* as get_full_path, but the walk also prepends the root's own name
get_full_path_with_root(t, i) ==
    LET r == FullPathWalk(t, i, <<>>)
    IN IF r.kind # "str" THEN r
       ELSE [kind |-> "str",
             val |-> IF r.val = <<>> THEN RootName ELSE RootName \o <<BACKSLASH>> \o r.val]

\* FileTree::get_full_path
get_full_path(t, i) == FullPathWalk(t, i, <<>>)

----------------------------------------------------------------------------
(* Sorter *)

\* enum SortField, enum SortOrder
SortFields == {"Filename", "DateModified", "DateCreated", "Size"}
SortOrders == {"Ascending", "Descending"}

\* struct Sorter: the four Mutex<Option<Vec<usize>>> slots
Sorter(filename_order, date_modified_order, date_created_order, size_order) ==
    [filename_order |-> filename_order, date_modified_order |-> date_modified_order,
     date_created_order |-> date_created_order, size_order |-> size_order]

\* Sorter::new
Sorter_new == Sorter(None, None, None, None)

\* the slot sort_by uses for a field
SlotOf(field) ==
    CASE field = "Filename" -> "filename_order"
      [] field = "DateModified" -> "date_modified_order"
      [] field = "DateCreated" -> "date_created_order"
      [] field = "Size" -> "size_order"

\* <Option<u64> as Ord>::cmp: None before every Some; -1, 0, 1
OptionCmp(a, b) ==
    IF a = None THEN (IF b = None THEN 0 ELSE -1)
    ELSE IF b = None THEN 1
    ELSE IF a[1] < b[1] THEN -1 ELSE IF a[1] > b[1] THEN 1 ELSE 0

\* the comparator closure each prepare_*_order hands to sort_unstable_by
FieldCmp(t, field, a, b) ==
    CASE field = "Filename" -> StrCmp(FilenameOf(t, a), FilenameOf(t, b))
      [] field = "DateModified" ->
             OptionCmp(t.elements[a + 1].date_modified, t.elements[b + 1].date_modified)
      [] field = "DateCreated" ->
             OptionCmp(t.elements[a + 1].date_created, t.elements[b + 1].date_created)
      [] field = "Size" -> OptionCmp(t.elements[a + 1].size, t.elements[b + 1].size)

\* the arrangements of 0 .. n-1
Arrangements(n) ==
    {s \in [1..n -> 0..(n - 1)] : \A j, k \in 1..n : j # k => s[j] # s[k]}

\* (0..len).collect() followed by sort_unstable_by: every arrangement that is
\* in comparator order; the order of equal elements is not determined
SortUnstableResults(t, field) ==
    {sorted \in Arrangements(Len(t.elements)) :
        \A k \in 1..(Len(sorted) - 1) : FieldCmp(t, field, sorted[k], sorted[k + 1]) <= 0}

\* as RankTable, but an element takes the position of the first element
\* that compares equal to it
RankTableSharedRanks(t, field, sorted) ==
    [index1 \in 1..Len(sorted) |->
        Min({i \in 1..Len(sorted) : FieldCmp(t, field, sorted[i], index1 - 1) = 0}) - 1]

\* for (i, &index) in sorted.iter().enumerate() { order[index] = i }
RankTable(t, field, sorted) ==
    [index1 \in 1..Len(sorted) |->
        (CHOOSE i \in 1..Len(sorted) : sorted[i] = index1 - 1) - 1]

\* as PrepareOrder, but the table is computed anew on every call
PrepareOrderAlways(self, t, field) ==
    {[self EXCEPT ![SlotOf(field)] = Some(RankTable(t, field, sorted))]
        : sorted \in SortUnstableResults(t, field)}

\* the body shared by the four prepare_*_order functions: fill the slot of
\* the field when it is empty, leave it alone otherwise
PrepareOrder(self, t, field) ==
    IF self[SlotOf(field)] # None THEN {self}
    ELSE {[self EXCEPT ![SlotOf(field)] = Some(RankTable(t, field, sorted))]
             : sorted \in SortUnstableResults(t, field)}

\* Sorter::prepare_filename_order
prepare_filename_order(self, t) == PrepareOrder(self, t, "Filename")
\* Sorter::prepare_date_modified_order
prepare_date_modified_order(self, t) == PrepareOrder(self, t, "DateModified")
\* Sorter::prepare_date_created_order
prepare_date_created_order(self, t) == PrepareOrder(self, t, "DateCreated")
\* Sorter::prepare_size_order
prepare_size_order(self, t) == PrepareOrder(self, t, "Size")

\* the scatter loop of sort_by_order_list over elements[k..]; a slot of
\* elements_sorted holds None for the sentinel usize::MAX
RECURSIVE Scatter(_, _, _, _, _)
Scatter(elems, k, order_list, order, elements_sorted) ==
    IF k > Len(elems) THEN elements_sorted
    ELSE LET idx == elems[k]
             len == Len(order_list)
             slot == IF order = "Ascending" THEN order_list[idx + 1]
                     ELSE len - 1 - order_list[idx + 1]
         IN Scatter(elems, k + 1, order_list, order,
                    [elements_sorted EXCEPT ![slot + 1] = Some(idx)])

\* the compaction loop of sort_by_order_list: the non-sentinel slots in order
Compact(elements_sorted) ==
    [k \in 1..Cardinality({p \in DOMAIN elements_sorted : elements_sorted[p] # None}) |->
        elements_sorted[CHOOSE p \in DOMAIN elements_sorted :
                           /\ elements_sorted[p] # None
                           /\ Cardinality({q \in 1..p : elements_sorted[q] # None}) = k][1]]

\* as sort_by_order_list, but Descending scatters like Ascending
sort_by_order_list_ascending_only(elems, order_list, order) ==
    IF \E k \in 1..Len(elems) : elems[k] >= Len(order_list)
    THEN [kind |-> "panic", val |-> <<>>]
    ELSE LET written == Compact(Scatter(elems, 1, order_list, "Ascending",
                                        [k \in 1..Len(order_list) |-> None]))
         IN [kind |-> "list",
             val |-> written \o SubSeq(elems, Len(written) + 1, Len(elems))]

\* Sorter::sort_by_order_list: order_list[index] of an index beyond the table
\* panics; entries of the slice beyond counter keep their old value
sort_by_order_list(elems, order_list, order) ==
    IF \E k \in 1..Len(elems) : elems[k] >= Len(order_list)
    THEN [kind |-> "panic", val |-> <<>>]
    ELSE LET written == Compact(Scatter(elems, 1, order_list, order,
                                        [k \in 1..Len(order_list) |-> None]))
         IN [kind |-> "list",
             val |-> written \o SubSeq(elems, Len(written) + 1, Len(elems))]

\* Sorter::sort_by: the outcomes, each the sorter afterwards and the slice
sort_by(self, t, elems, field, order) ==
    LET prepared ==
            CASE field = "Filename" -> prepare_filename_order(self, t)
              [] field = "DateModified" -> prepare_date_modified_order(self, t)
              [] field = "DateCreated" -> prepare_date_created_order(self, t)
              [] field = "Size" -> prepare_size_order(self, t)
    IN {[sorter |-> s,
         ret |-> sort_by_order_list(elems, s[SlotOf(field)][1], order)] : s \in prepared}

----------------------------------------------------------------------------
(* Threads and locks *)

\* number of threads that share the Searcher
NumThreads == 2
Threads == 1..NumThreads

\* the Mutex of each rank table, and the Mutex of LastSearchCache.search
LockNames == {SlotOf(f) : f \in SortFields} \cup {"search"}

\* a thread that is in no call
IdleThread ==
    [pc |-> "idle", query |-> <<>>, sort_by |-> None, sort_order |-> None, indices |-> <<>>]

\* as MutexFree, but lock never waits
MutexAlwaysFree(holder) == TRUE

\* Mutex::lock returns only when no thread holds the mutex
MutexFree(holder) == holder = None

\* as Unlock, but the guard is never dropped
UnlockNever(m, l) == m

\* a MutexGuard goes out of scope
Unlock(m, l) == [m EXCEPT ![l] = None]

\* as IsNone, but every slot looks empty
IsNoneAlways(option) == TRUE

\* Option::is_none
IsNone(option) == option = None

\* no thread is in a call, every lock is free, the cache is Mutex::new(None)
NoThreads ==
    /\ threads = [t \in Threads |-> IdleThread]
    /\ mutex = [l \in LockNames |-> None]
    /\ cache = None

----------------------------------------------------------------------------
(* Inputs of the tree operations *)

\* path segments: "", "a", "b"; either separator between two segments
SegNames == {<<>>, <<97>>, <<98>>}
Separators == {BACKSLASH, SLASH}

\* the paths of n segments written with the separator sep
RECURSIVE PathsOfSegs(_, _)
PathsOfSegs(n, sep) ==
    IF n = 1 THEN SegNames
    ELSE {p \o <<sep>> \o seg : p \in PathsOfSegs(n - 1, sep), seg \in SegNames}

Paths == UNION {PathsOfSegs(n, sep) : n \in 1..MaxSegs, sep \in Separators}

Meta(size, date_modified, date_created, attributes) ==
    [size |-> size, date_modified |-> date_modified,
     date_created |-> date_created, attributes |-> attributes]

\* metadata an importer supplies: attribute masks readonly 0x01 and directory 0x10
\* a record without size or dates and no attribute bit, and a directory record
PlainMeta == Meta(None, None, None, 0)
DirMeta == Meta(Some(10), Some(20), Some(30), 16)
Metas == {PlainMeta, DirMeta}

\* names and children lists of the Element values handed to add_child
ChildNames == {<<97>>, <<98>>}
ChildLists == {<<>>}

TheTree == Tree(elements, strbuf)

NoCall == [op |-> "none"]
NoRet == [kind |-> "none", val |-> <<>>]

----------------------------------------------------------------------------
(* State machine of the tree *)

InitTree ==
    /\ elements = with_capacity.elements
    /\ strbuf = with_capacity.strbuf

InitRest ==
    /\ built = FALSE
    /\ index = <<>>
    /\ num_elements = 0
    /\ sorter = Sorter_new
    /\ call = NoCall
    /\ ret = NoRet
    /\ postings_list = <<>>
    /\ cpl = [indices |-> <<>>, length |-> 0]
    /\ decoded = <<>>
    /\ NoThreads

Init == InitTree /\ InitRest

\* tree.add_or_update_recursive(path, size, date_modified, date_created, attributes)
Upsert(path, m) ==
    /\ ~built
    /\ \E o \in add_or_update_recursive(TheTree, path, m) :
          /\ Len(o.tree.elements) <= MaxElems
          /\ elements' = o.tree.elements
          /\ strbuf' = o.tree.strbuf
          /\ call' = [op |-> "upsert", path |-> path, meta |-> m,
                      created |-> Len(o.tree.elements) - Len(elements)]
          /\ ret' = [kind |-> "index", val |-> o.index]
    /\ UNCHANGED <<indexVars, codecVars, threadVars>>

\* let f = tree.new_filename(name); tree.add_child(parent, Element { filename: f, .. })
\* (an out-of-range parent panics in add_child and ends the import: no successor)
AddChild(parent, name, m, kids) ==
    /\ ~built
    /\ parent < Len(elements)
    /\ Len(elements) < MaxElems
    /\ LET nf == new_filename(TheTree, name)
           o == add_child(nf.tree, parent,
                    Element(nf.filename, m.size, m.date_modified, m.date_created,
                            m.attributes, 0, kids))
       IN /\ elements' = o.tree.elements
          /\ strbuf' = o.tree.strbuf
          /\ call' = [op |-> "add_child", parent |-> parent, name |-> name, meta |-> m]
          /\ ret' = [kind |-> "index", val |-> o.index]
    /\ UNCHANGED <<indexVars, codecVars, threadVars>>

\* tree.get(i)
Get(i) ==
    /\ call' = [op |-> "get", index |-> i]
    /\ ret' = [kind |-> "option", val |-> get(TheTree, i)]
    /\ UNCHANGED <<treeVars, indexVars, codecVars, threadVars>>

\* tree.get_filename(i)
GetFilename(i) ==
    /\ call' = [op |-> "get_filename", index |-> i]
    /\ ret' = get_filename(TheTree, i)
    /\ UNCHANGED <<treeVars, indexVars, codecVars, threadVars>>

\* tree.get_full_path(i)
GetFullPath(i) ==
    /\ call' = [op |-> "get_full_path", index |-> i]
    /\ ret' = get_full_path(TheTree, i)
    /\ UNCHANGED <<treeVars, indexVars, codecVars, threadVars>>

\* the importers: every mutator of the tree
Next ==
    \/ \E p \in Paths : Upsert(p, PlainMeta)
    \/ \E parent \in 0..(MaxElems - 1), name \in ChildNames, kids \in ChildLists :
          AddChild(parent, name, PlainMeta, kids)

Spec == Init /\ [][Next]_vars

\* an importer that only upserts (the EFU loader)
NextUpsert == \E p \in Paths : Upsert(p, PlainMeta)

SpecUpsert == Init /\ [][NextUpsert]_vars

\* an importer that upserts records with differing metadata
NextMeta == \E p \in Paths, m \in Metas : Upsert(p, m) /\ Len(elements') <= MaxMetaElems

SpecMeta == Init /\ [][NextMeta]_vars

\* an importer that upserts and a consumer that reads the tree by index
NextAccess ==
    \/ \E p \in Paths : Upsert(p, PlainMeta)
    \/ \E i \in 0..(MaxElems + 1) : Get(i)
    \/ \E i \in 0..(MaxElems + 1) : GetFilename(i)
    \/ \E i \in 0..(MaxElems + 1) : GetFullPath(i)

SpecAccess == Init /\ [][NextAccess]_vars

----------------------------------------------------------------------------
(* Tree claims *)

ChildNamesOf(t, i) ==
    LET kids == t.elements[i + 1].children
    IN [k \in 1..Len(kids) |-> FilenameOf(t, kids[k])]

\* every children list is in strictly ascending filename-byte order
StrictlySorted(t) ==
    \A i \in 0..(Len(t.elements) - 1) :
        LET names == ChildNamesOf(t, i)
        IN \A k \in 1..(Len(names) - 1) : StrCmp(names[k], names[k + 1]) < 0

\* no two entries of one children list carry the same filename
NoDuplicateSiblings(t) ==
    \A i \in 0..(Len(t.elements) - 1) :
        LET names == ChildNamesOf(t, i)
        IN \A j, k \in 1..Len(names) : j # k => names[j] # names[k]

\* C1: after any sequence of upserts on a tree made by with_capacity, every
\* element's children are in strictly ascending order of their filename
\* bytes, hence no two siblings share a name.
C1_UpsertKeepsChildrenSorted == StrictlySorted(TheTree) /\ NoDuplicateSiblings(TheTree)

\* C1 witness: an upsert has inserted a later-created child in front of an
\* earlier-created sibling.
C1_Witness ==
    /\ call.op = "upsert"
    /\ \E i \in 0..(Len(elements) - 1) :
          LET kids == elements[i + 1].children
          IN Len(kids) >= 2 /\ \E k \in 1..(Len(kids) - 1) : kids[k] > kids[k + 1]

\* C2: every mutator, add_child included, keeps every children list sorted by
\* filename bytes with no duplicate names.
C2_EveryMutatorKeepsChildrenSorted ==
    \A i \in 0..(Len(elements) - 1) :
        LET names == ChildNamesOf(TheTree, i)
        IN /\ \A k \in 1..(Len(names) - 1) : StrCmp(names[k], names[k + 1]) <= 0
           /\ \A j, k \in 1..Len(names) : j # k => names[j] # names[k]

\* C3: every element i > 0 has a parent index strictly below i; element 0 is
\* named "Root", is its own parent, and is the only self-parented element.
C3_ParentIndexMonotonic ==
    /\ Len(elements) >= 1
    /\ FilenameOf(TheTree, 0) = RootName
    /\ elements[1].parent = 0
    /\ \A i \in 1..(Len(elements) - 1) : elements[i + 1].parent < i

\* C3 witness: both mutators have run and an element hangs below a non-root.
C3_Witness ==
    /\ call.op = "add_child"
    /\ \E i \in 1..(Len(elements) - 1) : elements[i + 1].parent > 0
    /\ \E i \in 1..(Len(elements) - 1) :
          elements[i + 1].parent = 0 /\ elements[i + 1].children # <<>>

\* the element a path names, found by name equality alone; -1 when a segment
\* is missing
RECURSIVE Lookup(_, _, _)
Lookup(t, current_index, parts) ==
    IF parts = <<>> THEN current_index
    ELSE LET kids == t.elements[current_index + 1].children
             hits == {k \in 1..Len(kids) : FilenameOf(t, kids[k]) = Head(parts)}
         IN IF hits = {} THEN -1
            ELSE Lookup(t, kids[Min(hits)], Tail(parts))

MetaOf(e) == Meta(e.size, e.date_modified, e.date_created, e.attributes)

Reconstruct(t, i) ==
    get_full_path(t, t.elements[i + 1].parent).val \o <<BACKSLASH>> \o FilenameOf(t, i)

\* the paths the round trip is exact for: at least two segments, the parent
\* segment not empty, written with backslashes
RoundTripPath(path) ==
    LET parts == Split(path)
    IN /\ Len(parts) >= 2
       /\ parts[Len(parts) - 1] # <<>>
       /\ \A k \in 1..Len(path) : path[k] # SLASH

C6_AccessorsNeverPanic ==
    (call.op \in {"get", "get_filename", "get_full_path"} /\ call.index >= Len(elements)) =>
        /\ ret.kind # "panic"
        /\ ret.val = <<>>

----------------------------------------------------------------------------
(* usize: a 64-bit word held as ten base-128 digits, least significant     *)
(* first; the tenth digit is bit 63 alone.                                 *)

WordDigits == 10
Base128 == 128

DigitBase(k) == IF k = WordDigits THEN 2 ELSE Base128

\* the word whose low digits are ds
Word(ds) == [k \in 1..WordDigits |-> IF k <= Len(ds) THEN ds[k] ELSE 0]
ZeroWord == Word(<<>>)

\* an element index (below 128^3) as a usize, and back
ToWord(n) == Word(<<n % Base128, (n \div Base128) % Base128, n \div (Base128 * Base128)>>)
FromWord(w) == w[1] + Base128 * w[2] + Base128 * Base128 * w[3]

WordLess(a, b) ==
    \E k \in 1..WordDigits : a[k] < b[k] /\ \A j \in (k + 1)..WordDigits : a[j] = b[j]

\* a - b on usize (wrapping)
WordSub(a, b) ==
    LET borrow[k \in 0..WordDigits] ==
            IF k = 0 THEN 0
            ELSE IF a[k] - b[k] - borrow[k - 1] < 0 THEN 1 ELSE 0
    IN [k \in 1..WordDigits |-> (a[k] - b[k] - borrow[k - 1] + DigitBase(k)) % DigitBase(k)]

\* a + b on usize (wrapping)
WordAdd(a, b) ==
    LET carry[k \in 0..WordDigits] ==
            IF k = 0 THEN 0
            ELSE (a[k] + b[k] + carry[k - 1]) \div DigitBase(k)
    IN [k \in 1..WordDigits |-> (a[k] + b[k] + carry[k - 1]) % DigitBase(k)]

\* value >= 128
Ge128(w) == \E k \in 2..WordDigits : w[k] # 0
\* value & 0x7F
And7F(w) == w[1]
\* value >> 7
Shr7(w) == [k \in 1..WordDigits |-> IF k < WordDigits THEN w[k + 1] ELSE 0]
\* (value << 7) | b for b < 128: the bits shifted past bit 63 are lost
Shl7Or(w, b) ==
    [k \in 1..WordDigits |->
        IF k = 1 THEN b ELSE IF k = WordDigits THEN w[k - 1] % 2 ELSE w[k - 1]]

Reverse(s) == [k \in 1..Len(s) |-> s[Len(s) + 1 - k]]

----------------------------------------------------------------------------
(* CompressedPostingsList *)

\* the while loop of new: the 7-bit groups of value, lowest first, in bytes
RECURSIVE VByteGroups(_, _)
VByteGroups(value, bytes) ==
    IF Ge128(value)
    THEN VByteGroups(Shr7(value), Append(bytes, And7F(value)))
    ELSE Append(bytes, And7F(value))

\* as EncodeGap, but the high bit is set on the most significant group
EncodeGapMarkFirst(gap) ==
    LET bytes == VByteGroups(gap, <<>>)
        marked == [bytes EXCEPT ![Len(bytes)] = @ + Base128]
    IN Reverse(marked)

\* one gap: the groups, bytes[0] |= 0x80, pushed in reverse
EncodeGap(gap) ==
    LET bytes == VByteGroups(gap, <<>>)
        marked == [bytes EXCEPT ![1] = @ + Base128]
    IN Reverse(marked)

\* the for loop of new over the postings
RECURSIVE CompressFrom(_, _, _)
CompressFrom(xs, last_i, compressed_list) ==
    IF xs = <<>> THEN compressed_list
    ELSE CompressFrom(Tail(xs), Head(xs),
             compressed_list \o EncodeGap(WordSub(Head(xs), last_i)))

\* CompressedPostingsList::new
CompressedPostingsList_new(xs) ==
    [indices |-> CompressFrom(xs, ZeroWord, <<>>), length |-> Len(xs)]

\* the for loop of decompress over the bytes
RECURSIVE DecodeFrom(_, _, _, _)
DecodeFrom(bytes, last_value, current_value, out) ==
    IF bytes = <<>> THEN out
    ELSE IF Head(bytes) < Base128
    THEN DecodeFrom(Tail(bytes), last_value, Shl7Or(current_value, Head(bytes)), out)
    ELSE LET value == Shl7Or(current_value, Head(bytes) - Base128)
             last == WordAdd(last_value, value)
         IN DecodeFrom(Tail(bytes), last, ZeroWord, Append(out, last))

\* CompressedPostingsList::decompress
decompress(list) == DecodeFrom(list.indices, ZeroWord, ZeroWord, <<>>)

----------------------------------------------------------------------------
(* The codec on its own *)

\* longest postings list handed to the codec
MaxPostings == 3

Digits127(n) == [k \in 1..n |-> 127]

\* 0, 1, 127, 128, 16383, 16384, 142357, a value with zero groups inside,
\* 2^63 - 1, 2^63, 2^64 - 2, 2^64 - 1
CodecValues ==
    {Word(<<>>), Word(<<1>>), Word(<<127>>), Word(<<0, 1>>), Word(<<127, 127>>),
     Word(<<0, 0, 1>>), Word(<<21, 88, 8>>), Word(<<0, 5, 0, 0, 3>>),
     Word(Digits127(9)), Word(<<0, 0, 0, 0, 0, 0, 0, 0, 0, 1>>),
     Word(<<126>> \o Digits127(8) \o <<1>>), Word(Digits127(9) \o <<1>>)}

MaxWord == Word(Digits127(9) \o <<1>>)

StrictlyIncreasing(xs) == \A k \in 1..(Len(xs) - 1) : WordLess(xs[k], xs[k + 1])

PostingsInputs == {xs \in SeqsUpTo(CodecValues, MaxPostings) : StrictlyIncreasing(xs)}

InitCodec ==
    /\ InitTree
    /\ built = FALSE
    /\ index = <<>>
    /\ num_elements = 0
    /\ sorter = Sorter_new
    /\ call = NoCall
    /\ ret = NoRet
    /\ postings_list \in PostingsInputs
    /\ cpl = [indices |-> <<>>, length |-> 0]
    /\ decoded = <<>>
    /\ NoThreads

\* let compressed = CompressedPostingsList::new(postings_list.clone())
Compress ==
    /\ call.op = "none"
    /\ cpl' = CompressedPostingsList_new(postings_list)
    /\ call' = [op |-> "new"]
    /\ UNCHANGED <<treeVars, indexVars, ret, postings_list, decoded, threadVars>>

\* let decompressed = compressed.decompress()
Decompress ==
    /\ call.op = "new"
    /\ decoded' = decompress(cpl)
    /\ call' = [op |-> "decompress"]
    /\ UNCHANGED <<treeVars, indexVars, ret, postings_list, cpl, threadVars>>

NextCodec == Compress \/ Decompress

SpecCodec == InitCodec /\ [][NextCodec]_vars

\* C7: for every strictly increasing sequence xs of values up to 2^64 - 1,
\* new(xs).decompress() equals xs and the stored length is the number of
\* values; the empty sequence encodes to an empty buffer of length 0.
C7_PostingsRoundTrip ==
    /\ call.op \in {"new", "decompress"} =>
          /\ cpl.length = Len(postings_list)
          /\ (postings_list = <<>> => cpl.indices = <<>>)
    /\ call.op = "decompress" => decoded = postings_list

\* C7 witness: a three-value list ending in 2^64 - 1 whose last gap takes
\* ten bytes has been encoded and decoded.
C7_Witness ==
    /\ call.op = "decompress"
    /\ Len(postings_list) = 3
    /\ postings_list[3] = MaxWord
    /\ postings_list[2] = Word(<<1>>)
    /\ Len(cpl.indices) >= 12
    /\ decoded = postings_list

----------------------------------------------------------------------------
(* BigramIndex *)

\* char::to_lowercase on ASCII
Lower(c) == IF c \in 65..90 THEN c + 32 ELSE c
\* str::to_lowercase
to_lowercase(str) == [k \in 1..Len(str) |-> Lower(str[k])]

Bigram(first, second) == <<first, second>>

\* the bigrams of chars in order: for i in 0..chars.len() - 1
BigramsOf(chars) == [j \in 1..(Len(chars) - 1) |-> Bigram(chars[j], chars[j + 1])]

\* Vec::dedup: consecutive repeats removed
RECURSIVE Dedup(_)
Dedup(s) ==
    IF Len(s) <= 1 THEN s
    ELSE IF s[1] = s[2] THEN Dedup(Tail(s))
    ELSE <<s[1]>> \o Dedup(Tail(s))

\* sort_unstable on integers
RECURSIVE SortAsc(_)
SortAsc(s) ==
    IF s = <<>> THEN <<>>
    ELSE LET m == Min({s[k] : k \in 1..Len(s)})
             at == Min({k \in 1..Len(s) : s[k] = m})
         IN <<m>> \o SortAsc(SubSeq(s, 1, at - 1) \o SubSeq(s, at + 1, Len(s)))

\* as IndexedChars, but the filename is not lowercased
IndexedCharsNoLower(t, i) ==
    LET chars == filename_as_str(t, t.elements[i + 1].filename)
    IN IF Len(chars) < 2 THEN <<>> ELSE chars

\* the lowercased chars element i contributes; nothing below two chars
IndexedChars(t, i) ==
    LET chars == to_lowercase(filename_as_str(t, t.elements[i + 1].filename))
    IN IF Len(chars) < 2 THEN <<>> ELSE chars

\* index.entry(bigram).or_default().push(i) over elements i.. in order: the
\* list of one bigram before sort and dedup
RECURSIVE PushedFrom(_, _, _)
PushedFrom(t, i, bigram) ==
    IF i >= Len(t.elements) THEN <<>>
    ELSE LET bigrams == BigramsOf(IndexedChars(t, i))
         IN [k \in 1..Cardinality({j \in 1..Len(bigrams) : bigrams[j] = bigram}) |-> i]
            \o PushedFrom(t, i + 1, bigram)

\* the compressed postings list of one bigram
PostingsOf(t, bigram) ==
    LET indices == Dedup(SortAsc(PushedFrom(t, 0, bigram)))
    IN CompressedPostingsList_new([k \in 1..Len(indices) |-> ToWord(indices[k])])

\* create_bigram_reverse_index: the HashMap from each bigram that occurs
create_bigram_reverse_index(t) ==
    LET present == UNION {{BigramsOf(IndexedChars(t, i))[j]
                              : j \in 1..(Len(IndexedChars(t, i)) - 1)}
                          : i \in 0..(Len(t.elements) - 1)}
    IN [bigram \in present |-> PostingsOf(t, bigram)]

\* BigramIndex
BigramIndex(idx, n) == [index |-> idx, num_elements |-> n]

\* BigramIndex::new
BigramIndex_new(t) == BigramIndex(create_bigram_reverse_index(t), Len(t.elements))

\* postings_list.decompress() as element indices
DecompressIndices(list) ==
    LET ws == decompress(list) IN [k \in 1..Len(ws) |-> FromWord(ws[k])]

\* the two-pointer loop of query_word from positions i, j (counted from 0)
RECURSIVE Intersect(_, _, _, _, _)
Intersect(indices, next_indices, i, j, filtered_indices) ==
    IF ~(i < Len(indices) /\ j < Len(next_indices)) THEN filtered_indices
    ELSE IF indices[i + 1] = next_indices[j + 1]
    THEN Intersect(indices, next_indices, i + 1, j + 1, Append(filtered_indices, indices[i + 1]))
    ELSE IF indices[i + 1] < next_indices[j + 1]
    THEN Intersect(indices, next_indices, i + 1, j, filtered_indices)
    ELSE Intersect(indices, next_indices, i, j + 1, filtered_indices)

\* the loop of query_word over the remaining bigrams
RECURSIVE FilterBy(_, _, _)
FilterBy(bi, bigrams, indices) ==
    IF bigrams = <<>> THEN indices
    ELSE IF Head(bigrams) \notin DOMAIN bi.index THEN <<>>
    ELSE FilterBy(bi, Tail(bigrams),
             Intersect(indices, DecompressIndices(bi.index[Head(bigrams)]), 0, 0, <<>>))

\* BigramIndex::query_word: bigrams[0] of a word below two chars panics
query_word(bi, word) ==
    IF Len(word) < 2 THEN [kind |-> "panic", val |-> <<>>]
    ELSE LET bigrams == Dedup(BigramsOf(word))
         IN IF bigrams[1] \notin DOMAIN bi.index THEN [kind |-> "list", val |-> <<>>]
            ELSE [kind |-> "list",
                  val |-> FilterBy(bi, Tail(bigrams),
                              DecompressIndices(bi.index[bigrams[1]]))]

\* the ascending sequence of the members of a set of integers
RECURSIVE Ascending(_)
Ascending(S) == IF S = {} THEN <<>> ELSE <<Min(S)>> \o Ascending(S \ {Min(S)})

\* as query_char, but without the bitmap: the decompressed lists of the
\* matching bigrams are chained one after the other
RECURSIVE ChainLists(_, _)
ChainLists(bi, bigrams) ==
    IF bigrams = {} THEN <<>>
    ELSE LET b == CHOOSE x \in bigrams : TRUE
         IN DecompressIndices(bi.index[b]) \o ChainLists(bi, bigrams \ {b})

query_char_chained(bi, c) ==
    [kind |-> "list",
     val |-> ChainLists(bi, {x \in DOMAIN bi.index : x[1] = c \/ x[2] = c})]

\* BigramIndex::query_char: the bitmap over num_elements, then its set bits
query_char(bi, c) ==
    LET marked == UNION {{DecompressIndices(bi.index[b])[k]
                             : k \in 1..Len(DecompressIndices(bi.index[b]))}
                         : b \in {x \in DOMAIN bi.index : x[1] = c \/ x[2] = c}}
    IN IF \E m \in marked : m >= bi.num_elements
       THEN [kind |-> "panic", val |-> <<>>]
       ELSE [kind |-> "list",
             val |-> Ascending({i \in 0..(bi.num_elements - 1) : i \in marked})]

----------------------------------------------------------------------------
(* post_filter and Searcher *)

\* regex (?i)escape(query) is_match(text): the literal occurs somewhere in
\* text, letters compared without regard to case
is_match(query, text) ==
    \E off \in 0..(Len(text) - Len(query)) :
        \A k \in 1..Len(query) : Lower(text[off + k]) = Lower(query[k])

\* as post_filter, but the regex is built case sensitive
post_filter_case_sensitive(t, indices, query) ==
    SelectSeq(indices,
        LAMBDA i : \E off \in 0..(Len(FilenameOf(t, i)) - Len(query)) :
                       \A k \in 1..Len(query) : FilenameOf(t, i)[off + k] = query[k])

\* post_filter: indices.retain(|&index| regex.is_match(tree.get_filename(index)))
post_filter(t, indices, query) ==
    SelectSeq(indices, LAMBDA i : is_match(query, FilenameOf(t, i)))

\* as search, but the range of the empty query starts after the root
search_without_root(t, bi, raw_query) ==
    LET query == to_lowercase(raw_query)
        query_len == Len(query)
    IN IF query = <<>>
       THEN [kind |-> "list", val |-> [k \in 1..(Len(t.elements) - 1) |-> k]]
       ELSE IF query_len < 2
       THEN query_char(bi, query[1])
       ELSE LET found == query_word(bi, query)
            IN IF query_len > 2 /\ found.kind = "list"
               THEN [kind |-> "list", val |-> post_filter(t, found.val, query)]
               ELSE found

\* search without the length test: every query goes to query_word
search_by_word(t, bi, raw_query) == query_word(bi, to_lowercase(raw_query))

\* Searcher::search with sort_by = None
search(t, bi, raw_query) ==
    LET query == to_lowercase(raw_query)
        query_len == Len(query)
    IN IF query = <<>>
       THEN [kind |-> "list", val |-> [k \in 1..Len(t.elements) |-> k - 1]]
       ELSE IF query_len < 2
       THEN query_char(bi, query[1])
       ELSE LET found == query_word(bi, query)
            IN IF query_len > 2 /\ found.kind = "list"
               THEN [kind |-> "list", val |-> post_filter(t, found.val, query)]
               ELSE found

\* Searcher::search with its optional sort: the outcomes, each the sorter
\* afterwards and the indices returned
Searcher_search(self, t, bi, query, by, order) ==
    IF by = None \/ search(t, bi, query).kind = "panic"
    THEN {[sorter |-> self, ret |-> search(t, bi, query)]}
    ELSE sort_by(self, t, search(t, bi, query).val, by[1],
                 IF order = None THEN "Ascending" ELSE order[1])

----------------------------------------------------------------------------
(* Building a Searcher and querying it *)

\* longest query string
MaxQueryLen == 3

\* the file list of the search runs: "o", "Ot", "oto", "tOt", "oo", "T/to"
SearchPaths ==
    {<<111>>, <<79, 116>>, <<111, 116, 111>>, <<116, 79, 116>>, <<111, 111>>,
     <<84, SLASH, 116, 111>>}

\* query characters 'o', 't'; raw queries may also hold 'O'
QueryChars == {111, 116}
QueryWords == {w \in SeqsUpTo(QueryChars, MaxQueryLen) : Len(w) >= 2}
RawQueries == SeqsUpTo(QueryChars \cup {79}, MaxQueryLen)

TheIndex == BigramIndex(index, num_elements)

\* a query has returned and its result is with the caller
Pending == call.op \in {"query_word", "query_char", "search", "sort_by"}

\* Searcher::from_file_tree(tree)
Build ==
    /\ ~built
    /\ built' = TRUE
    /\ index' = BigramIndex_new(TheTree).index
    /\ num_elements' = BigramIndex_new(TheTree).num_elements
    /\ sorter' = Sorter_new
    /\ call' = [op |-> "from_file_tree"]
    /\ ret' = NoRet
    /\ UNCHANGED <<treeVars, codecVars, threadVars>>

\* searcher.bigram_index.query_word(word)
QueryWord(word) ==
    /\ built /\ ~Pending
    /\ call' = [op |-> "query_word", word |-> word]
    /\ ret' = query_word(TheIndex, word)
    /\ UNCHANGED <<treeVars, indexVars, codecVars, threadVars>>

\* searcher.bigram_index.query_char(c)
QueryChar(c) ==
    /\ built /\ ~Pending
    /\ call' = [op |-> "query_char", c |-> c]
    /\ ret' = query_char(TheIndex, c)
    /\ UNCHANGED <<treeVars, indexVars, codecVars, threadVars>>

\* searcher.search(query, None, None)
Search(query) ==
    /\ built /\ ~Pending
    /\ call' = [op |-> "search", query |-> query, sort_by |-> None, sort_order |-> None]
    /\ ret' = search(TheTree, TheIndex, query)
    /\ UNCHANGED <<treeVars, indexVars, codecVars, threadVars>>

\* the caller has consumed the result and may ask again
Return ==
    /\ Pending
    /\ call' = [op |-> "returned"]
    /\ ret' = NoRet
    /\ UNCHANGED <<treeVars, indexVars, codecVars, threadVars>>

NextSearch ==
    \/ \E p \in SearchPaths : Upsert(p, PlainMeta)
    \/ Build
    \/ \E w \in QueryWords : QueryWord(w)
    \/ \E c \in QueryChars : QueryChar(c)
    \/ \E q \in RawQueries : Search(q)
    \/ Return

SpecSearch == Init /\ [][NextSearch]_vars

----------------------------------------------------------------------------
(* Index and search claims *)

\* w occurs in text as a contiguous substring
Contains(text, w) ==
    \E off \in 0..(Len(text) - Len(w)) : SubSeq(text, off + 1, off + Len(w)) = w

LowerName(i) == to_lowercase(FilenameOf(TheTree, i))

Members(s) == {s[k] : k \in 1..Len(s)}

\* the elements whose lowercased filename contains w
TrueMatches(w) == {i \in 0..(Len(elements) - 1) : Contains(LowerName(i), w)}

\* C8: every element whose lowercased filename contains the lowercased query
\* of at least two characters is in query_word(query).
C8_BigramCandidateSuperset ==
    call.op = "query_word" =>
        /\ ret.kind = "list"
        /\ TrueMatches(call.word) \subseteq Members(ret.val)

\* C8 witness: a three-character query has returned a true match whose
\* filename has an upper-case letter, together with a false positive.
C8_Witness ==
    /\ call.op = "query_word"
    /\ Len(call.word) = 3
    /\ \E i \in TrueMatches(call.word) : FilenameOf(TheTree, i) # LowerName(i)
    /\ \E i \in Members(ret.val) : i \notin TrueMatches(call.word)

\* C9: every element whose lowercased filename contains the character c,
\* one-character filenames included, is in query_char(c) and in search(c).
C9_SingleCharSuperset ==
    /\ call.op = "query_char" =>
          (ret.kind = "list" /\ TrueMatches(<<call.c>>) \subseteq Members(ret.val))
    /\ (call.op = "search" /\ Len(call.query) = 1) =>
          (ret.kind = "list" /\ TrueMatches(to_lowercase(call.query)) \subseteq Members(ret.val))

AscendingBelow(s, n) ==
    /\ \A k \in 1..Len(s) : s[k] \in 0..(n - 1)
    /\ \A k \in 1..(Len(s) - 1) : s[k] < s[k + 1]

\* C11: query_word (word of at least two characters) and query_char return
\* element indices in strictly ascending order, without duplicates, each
\* below the number of elements of the tree the index was built from.
C11_QueryResultsAscending ==
    call.op \in {"query_word", "query_char"} =>
        /\ ret.kind = "list"
        /\ AscendingBelow(ret.val, Len(elements))

\* C11 witness: query_word has intersected the lists of two different
\* bigrams and returned two or more elements.
C11_Witness ==
    /\ call.op = "query_word"
    /\ Len(Dedup(BigramsOf(call.word))) >= 2
    /\ ret.kind = "list"
    /\ Len(ret.val) >= 2

\* C12: for the empty query without a sort field search returns every
\* element index 0 .. |tree|-1 exactly once in ascending order, root and
\* implicitly created directories included.
C12_EmptyQueryReturnsAll ==
    (call.op = "search" /\ call.query = <<>> /\ call.sort_by = None) =>
        /\ ret.kind = "list"
        /\ ret.val = [k \in 1..Len(elements) |-> k - 1]

\* C12 witness: the empty query has run on a tree that holds a directory
\* created implicitly as an intermediate segment, with a file below it.
C12_Witness ==
    /\ call.op = "search" /\ call.query = <<>> /\ call.sort_by = None
    /\ Len(ret.val) >= 3
    /\ \E i \in 1..(Len(elements) - 1) :
          /\ elements[i + 1].children # <<>>
          /\ i \in Members(ret.val)
    /\ 0 \in Members(ret.val)

----------------------------------------------------------------------------
(* QueryLexer *)

\* the characters the lexer singles out
SPACE == 32
QUOTE == 34
BANG == 33
COLON == 58
LESS == 60
EQUALS == 61
GREATER == 62
PIPE == 124

\* char::is_whitespace on the ASCII range: tab, LF, VT, FF, CR, space
IsWhitespace(c) == c \in {9, 10, 11, 12, 13, SPACE}

\* str::trim
trim(s) ==
    LET solid == {k \in 1..Len(s) : ~IsWhitespace(s[k])}
    IN IF solid = {} THEN <<>> ELSE SubSeq(s, Min(solid), Max(solid))

\* enum QueryToken; text is the payload of StrLit and Ident
QueryToken(type, text) == [type |-> type, text |-> text]

\* impl Display for QueryToken
to_string(token) ==
    CASE token.type = "Colon" -> <<COLON>>
      [] token.type = "Equal" -> <<EQUALS>>
      [] token.type = "LessThan" -> <<LESS>>
      [] token.type = "GreaterThan" -> <<GREATER>>
      [] token.type = "LessThanOrEqual" -> <<LESS, EQUALS>>
      [] token.type = "GreaterThanOrEqual" -> <<GREATER, EQUALS>>
      [] token.type = "Not" -> <<BANG>>
      [] token.type = "Or" -> <<PIPE>>
      [] token.type = "StrLit" -> token.text
      [] token.type = "Ident" -> token.text
      [] token.type = "Whitespace" -> <<SPACE>>

\* struct QueryLexer
QueryLexer(input, read_position) == [input |-> input, read_position |-> read_position]

\* QueryLexer::new
QueryLexer_new(input) == QueryLexer(trim(input), 0)

\* QueryLexer::peek_char
peek_char(lexer) ==
    IF lexer.read_position < Len(lexer.input)
    THEN Some(lexer.input[lexer.read_position + 1]) ELSE None

\* QueryLexer::read_char
read_char(lexer) ==
    IF peek_char(lexer) = None THEN [ch |-> None, lexer |-> lexer]
    ELSE [ch |-> peek_char(lexer),
          lexer |-> QueryLexer(lexer.input, lexer.read_position + 1)]

\* the characters of a query string
AsciiChars == 0..127

\* as read_while, but reads nothing
read_while_nothing(lexer, condition) ==
    [result |-> <<>>, lexer |-> lexer]

\* QueryLexer::read_while; the closure is a function from characters to BOOLEAN
read_while(lexer, condition) ==
    LET stops == {k \in (lexer.read_position + 1)..Len(lexer.input) :
                     ~condition[lexer.input[k]]}
        end == IF stops = {} THEN Len(lexer.input) ELSE Min(stops) - 1
    IN [result |-> SubSeq(lexer.input, lexer.read_position + 1, end),
        lexer |-> QueryLexer(lexer.input, end)]

\* the match of next_token on the character read, rest the lexer after it
TokenAt(ch, rest) ==
    CASE IsWhitespace(ch) ->
           [token |-> Some(QueryToken("Whitespace", <<>>)),
            lexer |-> read_while(rest, [c \in AsciiChars |-> IsWhitespace(c)]).lexer]
      [] ch = COLON -> [token |-> Some(QueryToken("Colon", <<>>)), lexer |-> rest]
      [] ch = EQUALS -> [token |-> Some(QueryToken("Equal", <<>>)), lexer |-> rest]
      [] ch = LESS ->
           IF peek_char(rest) = Some(EQUALS)
           THEN [token |-> Some(QueryToken("LessThanOrEqual", <<>>)),
                 lexer |-> read_char(rest).lexer]
           ELSE [token |-> Some(QueryToken("LessThan", <<>>)), lexer |-> rest]
      [] ch = GREATER ->
           IF peek_char(rest) = Some(EQUALS)
           THEN [token |-> Some(QueryToken("GreaterThanOrEqual", <<>>)),
                 lexer |-> read_char(rest).lexer]
           ELSE [token |-> Some(QueryToken("GreaterThan", <<>>)), lexer |-> rest]
      [] ch = BANG -> [token |-> Some(QueryToken("Not", <<>>)), lexer |-> rest]
      [] ch = PIPE -> [token |-> Some(QueryToken("Or", <<>>)), lexer |-> rest]
      [] ch = QUOTE ->
           LET str_lit == read_while(rest, [c \in AsciiChars |-> c # QUOTE])
           IN [token |-> Some(QueryToken("StrLit", str_lit.result)),
               lexer |-> read_char(str_lit.lexer).lexer]
      [] OTHER ->
           LET more == read_while(rest, [c \in AsciiChars |-> ~IsWhitespace(c) /\ c # COLON])
           IN [token |-> Some(QueryToken("Ident", <<ch>> \o more.result)),
               lexer |-> more.lexer]

\* QueryLexer::next_token
next_token(lexer) ==
    IF read_char(lexer).ch = None THEN [token |-> None, lexer |-> lexer]
    ELSE TokenAt(read_char(lexer).ch[1], read_char(lexer).lexer)

\* QueryLexer::peek_token
peek_token(lexer) == next_token(lexer).token

----------------------------------------------------------------------------
(* query_parser *)

\* struct QueryModifiersTracking
QueryModifiersTracking(case_sensitive, diacritics_sensitive, file_only, folder_only, match_path, regex, whole_filename, whole_word, wildcards) ==
    [case_sensitive |-> case_sensitive, diacritics_sensitive |-> diacritics_sensitive,
     file_only |-> file_only, folder_only |-> folder_only, match_path |-> match_path,
     regex |-> regex, whole_filename |-> whole_filename, whole_word |-> whole_word,
     wildcards |-> wildcards]

\* impl Default for QueryModifiersTracking
QueryModifiersTracking_default ==
    QueryModifiersTracking(FALSE, FALSE, FALSE, FALSE, FALSE, FALSE, FALSE, FALSE, FALSE)

\* QueryLiteral::Text(TextQuery { .. })
TextQuery(text, case_sensitive, diacritics_sensitive, file_only, folder_only, match_path, whole_filename, whole_word) ==
    [kind |-> "Text", text |-> text, case_sensitive |-> case_sensitive,
     diacritics_sensitive |-> diacritics_sensitive, file_only |-> file_only,
     folder_only |-> folder_only, match_path |-> match_path,
     whole_filename |-> whole_filename, whole_word |-> whole_word]

\* QueryLiteral::Regex(RegexQuery { .. }); the compiled pattern is held as the
\* text it is built from (the ".*" fallback for a text the regex crate
\* rejects is not told apart)
RegexQuery(pattern, case_sensitive, diacritics_sensitive, match_path) ==
    [kind |-> "Regex", pattern |-> pattern, case_sensitive |-> case_sensitive,
     diacritics_sensitive |-> diacritics_sensitive, match_path |-> match_path]

\* enum QueryExpr
Literal(literal) == [kind |-> "Literal", literal |-> literal]
Function(func) == [kind |-> "Function", func |-> func]
And(left, right) == [kind |-> "And", left |-> left, right |-> right]
Or(left, right) == [kind |-> "Or", left |-> left, right |-> right]
Not(expr) == [kind |-> "Not", expr |-> expr]

\* enum QueryFunction
Size(cmp, size) == [name |-> "Size", cmp |-> cmp, size |-> size]
DateModified(cmp, date) == [name |-> "DateModified", cmp |-> cmp, date |-> date]
DateCreated(cmp, date) == [name |-> "DateCreated", cmp |-> cmp, date |-> date]
Parent(folder) == [name |-> "Parent", folder |-> folder]
Ext(exts) == [name |-> "Ext", exts |-> exts]

\* the literal written out three times in the parser: empty text, no flag
EmptyTextLiteral ==
    Literal(TextQuery(<<>>, FALSE, FALSE, FALSE, FALSE, FALSE, FALSE, FALSE))

\* as exprs_to_and, but folded from the right
RECURSIVE exprs_to_and_right(_)
exprs_to_and_right(exprs) ==
    IF exprs = <<>> THEN EmptyTextLiteral
    ELSE IF Len(exprs) = 1 THEN exprs[1]
    ELSE And(exprs[1], exprs_to_and_right(Tail(exprs)))

\* the fold of exprs_to_and over exprs[k..]
RECURSIVE FoldAnd(_, _, _)
FoldAnd(acc, exprs, k) ==
    IF k > Len(exprs) THEN acc ELSE FoldAnd(And(acc, exprs[k]), exprs, k + 1)

\* exprs_to_and
exprs_to_and(exprs) ==
    IF exprs = <<>> THEN EmptyTextLiteral ELSE FoldAnd(exprs[1], exprs, 2)

\* the match of get_comparison on the token peeked, n the result of
\* next_token(lexer)
MatchComparison(n, lexer) ==
    IF n.token = None THEN [cmp |-> None, lexer |-> lexer]
    ELSE CASE n.token[1].type = "Equal" -> [cmp |-> Some("Eq"), lexer |-> n.lexer]
           [] n.token[1].type = "GreaterThan" -> [cmp |-> Some("Gt"), lexer |-> n.lexer]
           [] n.token[1].type = "GreaterThanOrEqual" -> [cmp |-> Some("Ge"), lexer |-> n.lexer]
           [] n.token[1].type = "LessThan" -> [cmp |-> Some("Lt"), lexer |-> n.lexer]
           [] n.token[1].type = "LessThanOrEqual" -> [cmp |-> Some("Le"), lexer |-> n.lexer]
           [] OTHER -> [cmp |-> Some("Eq"), lexer |-> lexer]

\* get_comparison: None only at the end of the input
get_comparison(lexer) == MatchComparison(next_token(lexer), lexer)

\* create_query_literal
create_query_literal(text, modifiers) ==
    IF modifiers.regex
    THEN RegexQuery(text, modifiers.case_sensitive, modifiers.diacritics_sensitive,
                    modifiers.match_path)
    ELSE TextQuery(text, modifiers.case_sensitive, modifiers.diacritics_sensitive,
                   modifiers.file_only, modifiers.folder_only, modifiers.match_path,
                   modifiers.whole_filename, modifiers.whole_word)

\* u64::MAX in decimal
U64MaxDecimal == <<49, 56, 52, 52, 54, 55, 52, 52, 48, 55, 51, 55, 48, 57, 53, 53, 49, 54, 49, 53>>

\* str::parse::<u64>: an optional '+', then one or more decimal digits whose
\* value fits 64 bits; the value is held as its decimal numeral without
\* leading zeros
ParseU64(num_str) ==
    LET digits == IF num_str # <<>> /\ num_str[1] = 43 THEN Tail(num_str) ELSE num_str
        nonzero == {k \in 1..Len(digits) : digits[k] # 48}
        numeral == IF nonzero = {} THEN <<48>>
                   ELSE SubSeq(digits, Min(nonzero), Len(digits))
    IN IF digits = <<>> \/ \E k \in 1..Len(digits) : digits[k] \notin 48..57 THEN None
       ELSE IF Len(numeral) > Len(U64MaxDecimal) THEN None
       ELSE IF Len(numeral) = Len(U64MaxDecimal) /\ StrCmp(numeral, U64MaxDecimal) > 0 THEN None
       ELSE Some(numeral)

(* Parsing dates *)

\* the value of a short decimal numeral
RECURSIVE DecimalValue(_)
DecimalValue(digits) ==
    IF digits = <<>> THEN 0
    ELSE 10 * DecimalValue(SubSeq(digits, 1, Len(digits) - 1)) + (digits[Len(digits)] - 48)

\* the number of decimal digits s starts with, max at most
DigitRun(s, max) ==
    Max({n \in 0..Min({Len(s), max}) : \A k \in 1..n : s[k] \in 48..57})

\* str::trim_start
TrimStart(s) ==
    SubSeq(s, 1 + Max({n \in 0..Len(s) : \A k \in 1..n : IsWhitespace(s[k])}), Len(s))

\* str::parse::<i32>: an optional sign, then one or more decimal digits whose
\* value fits 32 bits
ParseI32(s) ==
    LET digits == IF s # <<>> /\ s[1] \in {43, 45} THEN Tail(s) ELSE s
        nonzero == {k \in 1..Len(digits) : digits[k] # 48}
        numeral == IF nonzero = {} THEN <<48>>
                   ELSE SubSeq(digits, Min(nonzero), Len(digits))
    IN IF digits = <<>> \/ \E k \in 1..Len(digits) : digits[k] \notin 48..57 THEN None
       ELSE IF Len(numeral) > 10 THEN None
       ELSE IF Len(numeral) = 10 /\ StrCmp(numeral, <<50, 49, 52, 55, 52, 56, 51, 54, 52, 55>>) > 0
            THEN IF s[1] = 45 /\ numeral = <<50, 49, 52, 55, 52, 56, 51, 54, 52, 56>> THEN Some(-2147483647 - 1) ELSE None
       ELSE Some(IF s[1] = 45 THEN 0 - DecimalValue(numeral) ELSE DecimalValue(numeral))

\* the days of a month of the proleptic Gregorian calendar
DaysInMonth(year, month) ==
    IF month \in {4, 6, 9, 11} THEN 30
    ELSE IF month # 2 THEN 31
    ELSE IF year % 4 = 0 /\ (year % 100 # 0 \/ year % 400 = 0) THEN 29 ELSE 28

\* NaiveDate::from_ymd_opt: the date, or None when no such day exists
from_ymd_opt(year, month, day) ==
    IF year \in -262143..262142 /\ month \in 1..12 /\ day \in 1..DaysInMonth(year, month)
    THEN Some(<<year, month, day>>)
    ELSE None

\* a timestamp, held as the local calendar day and the second of that day it
\* denotes; the local zone has offset zero and no clock changes, so
\* from_local_datetime(..).single() is always Some
Timestamp(date, secs) == [date |-> date, secs |-> secs]

\* QueryDate::Range(start, end)
Range(start, end) == [kind |-> "Range", start |-> start, end |-> end]

\* QueryDate::Range(0, 0)
RangeZero == Range(Timestamp(<<1970, 1, 1>>, 0), Timestamp(<<1970, 1, 1>>, 0))

\* the closure date_range_to_timestamps followed by QueryDate::Range: the
\* first second of start_date to the last second of end_date
date_range_to_timestamps(start_date, end_date) ==
    Range(Timestamp(start_date, 0), Timestamp(end_date, 86399))

\* the ranges computed from Local::now(): the special date constants and the
\* numeric relative dates. Their timestamps depend on the clock and are held
\* as the text they were computed from; the date arithmetic is not modelled
ClockRange(s) ==
    Range([clock |-> s, bound |-> "start"], [clock |-> s, bound |-> "end"])

\* the arms of the "special date constants" match
SpecialConstants ==
    {<<116, 111, 100, 97, 121>>, <<121, 101, 115, 116, 101, 114, 100, 97, 121>>,
     <<108, 97, 115, 116, 119, 101, 101, 107>>, <<108, 97, 115, 116, 32, 119, 101, 101, 107>>, <<112, 97, 115, 116, 119, 101, 101, 107>>, <<112, 97, 115, 116, 32, 119, 101, 101, 107>>, <<112, 114, 101, 118, 119, 101, 101, 107>>, <<112, 114, 101, 118, 32, 119, 101, 101, 107>>,
     <<116, 104, 105, 115, 119, 101, 101, 107>>, <<116, 104, 105, 115, 32, 119, 101, 101, 107>>, <<99, 117, 114, 114, 101, 110, 116, 119, 101, 101, 107>>, <<99, 117, 114, 114, 101, 110, 116, 32, 119, 101, 101, 107>>,
     <<110, 101, 120, 116, 119, 101, 101, 107>>, <<110, 101, 120, 116, 32, 119, 101, 101, 107>>, <<99, 111, 109, 105, 110, 103, 119, 101, 101, 107>>, <<99, 111, 109, 105, 110, 103, 32, 119, 101, 101, 107>>,
     <<108, 97, 115, 116, 109, 111, 110, 116, 104>>, <<108, 97, 115, 116, 32, 109, 111, 110, 116, 104>>, <<112, 97, 115, 116, 109, 111, 110, 116, 104>>, <<112, 97, 115, 116, 32, 109, 111, 110, 116, 104>>, <<112, 114, 101, 118, 109, 111, 110, 116, 104>>, <<112, 114, 101, 118, 32, 109, 111, 110, 116, 104>>,
     <<116, 104, 105, 115, 109, 111, 110, 116, 104>>, <<116, 104, 105, 115, 32, 109, 111, 110, 116, 104>>, <<99, 117, 114, 114, 101, 110, 116, 109, 111, 110, 116, 104>>, <<99, 117, 114, 114, 101, 110, 116, 32, 109, 111, 110, 116, 104>>,
     <<110, 101, 120, 116, 109, 111, 110, 116, 104>>, <<110, 101, 120, 116, 32, 109, 111, 110, 116, 104>>, <<99, 111, 109, 105, 110, 103, 109, 111, 110, 116, 104>>, <<99, 111, 109, 105, 110, 103, 32, 109, 111, 110, 116, 104>>,
     <<108, 97, 115, 116, 121, 101, 97, 114>>, <<108, 97, 115, 116, 32, 121, 101, 97, 114>>, <<112, 97, 115, 116, 121, 101, 97, 114>>, <<112, 97, 115, 116, 32, 121, 101, 97, 114>>, <<112, 114, 101, 118, 121, 101, 97, 114>>, <<112, 114, 101, 118, 32, 121, 101, 97, 114>>,
     <<116, 104, 105, 115, 121, 101, 97, 114>>, <<116, 104, 105, 115, 32, 121, 101, 97, 114>>, <<99, 117, 114, 114, 101, 110, 116, 121, 101, 97, 114>>, <<99, 117, 114, 114, 101, 110, 116, 32, 121, 101, 97, 114>>,
     <<110, 101, 120, 116, 121, 101, 97, 114>>, <<110, 101, 120, 116, 32, 121, 101, 97, 114>>, <<99, 111, 109, 105, 110, 103, 121, 101, 97, 114>>, <<99, 111, 109, 105, 110, 103, 32, 121, 101, 97, 114>>}

\* the regex ^(last|past|prev|next|coming)(\d+)(years?|months?|...|secs?)$:
\* the direction and unit pairs s can be split into around a run of digits
RelativeCaptures(s) ==
    {c \in {<<108, 97, 115, 116>>, <<112, 97, 115, 116>>, <<112, 114, 101, 118>>, <<110, 101, 120, 116>>, <<99, 111, 109, 105, 110, 103>>}
           \X {<<121, 101, 97, 114>>, <<121, 101, 97, 114, 115>>, <<109, 111, 110, 116, 104>>, <<109, 111, 110, 116, 104, 115>>, <<119, 101, 101, 107>>, <<119, 101, 101, 107, 115>>,
               <<100, 97, 121>>, <<100, 97, 121, 115>>, <<104, 111, 117, 114>>, <<104, 111, 117, 114, 115>>, <<109, 105, 110, 117, 116, 101>>, <<109, 105, 110, 117, 116, 101, 115>>,
               <<109, 105, 110>>, <<109, 105, 110, 115>>, <<115, 101, 99, 111, 110, 100>>, <<115, 101, 99, 111, 110, 100, 115>>, <<115, 101, 99>>, <<115, 101, 99, 115>>} :
        /\ Len(s) > Len(c[1]) + Len(c[2])
        /\ SubSeq(s, 1, Len(c[1])) = c[1]
        /\ SubSeq(s, Len(s) - Len(c[2]) + 1, Len(s)) = c[2]
        /\ \A k \in Len(c[1]) + 1..Len(s) - Len(c[2]) : s[k] \in 48..57}

\* one item of a chrono format string: a numeric field of at most width
\* digits, a literal character, or white space
Item(kind, spec, width, ch) == [kind |-> kind, spec |-> spec, width |-> width, ch |-> ch]

\* the array date_formats: %Y-%m-%d, %Y-%m-%d %H:%M:%S, %m/%d/%Y, %d/%m/%Y
date_formats ==
    <<<<Item("numeric", "Y", 4, 0), Item("literal", "", 0, 45), Item("numeric", "m", 2, 0),
        Item("literal", "", 0, 45), Item("numeric", "d", 2, 0)>>,
      <<Item("numeric", "Y", 4, 0), Item("literal", "", 0, 45), Item("numeric", "m", 2, 0),
        Item("literal", "", 0, 45), Item("numeric", "d", 2, 0), Item("space", "", 0, 0),
        Item("numeric", "H", 2, 0), Item("literal", "", 0, 58), Item("numeric", "M", 2, 0),
        Item("literal", "", 0, 58), Item("numeric", "S", 2, 0)>>,
      <<Item("numeric", "m", 2, 0), Item("literal", "", 0, 47), Item("numeric", "d", 2, 0),
        Item("literal", "", 0, 47), Item("numeric", "Y", 4, 0)>>,
      <<Item("numeric", "d", 2, 0), Item("literal", "", 0, 47), Item("numeric", "m", 2, 0),
        Item("literal", "", 0, 47), Item("numeric", "Y", 4, 0)>>>>

\* chrono's numeric field: a year with an explicit sign takes every digit that
\* follows, any other field at most its width; at least one digit. A run of
\* more than nine digits is a year no date has and is refused here
ScanNumber(s, item) ==
    LET signed == item.spec = "Y" /\ s # <<>> /\ s[1] \in {43, 45}
        body == IF signed THEN Tail(s) ELSE s
        n == DigitRun(body, IF signed THEN Len(body) ELSE item.width)
    IN IF n = 0 \/ n > 9 THEN None
       ELSE Some([value |-> IF signed /\ s[1] = 45 THEN 0 - DecimalValue(SubSeq(body, 1, n))
                            ELSE DecimalValue(SubSeq(body, 1, n)),
                  rest |-> SubSeq(body, n + 1, Len(body))])

\* chrono's format::parse: the items consume the text from the left, white
\* space before a numeric field is skipped, and text left over is an error
RECURSIVE ParseItems(_, _, _, _)
RECURSIVE ParseScanned(_, _, _, _)
ParseItems(s, items, k, parsed) ==
    IF k > Len(items) THEN (IF s = <<>> THEN Some(parsed) ELSE None)
    ELSE IF items[k].kind = "literal"
         THEN (IF s # <<>> /\ s[1] = items[k].ch
               THEN ParseItems(Tail(s), items, k + 1, parsed)
               ELSE None)
    ELSE IF items[k].kind = "space" THEN ParseItems(TrimStart(s), items, k + 1, parsed)
    ELSE ParseScanned(ScanNumber(TrimStart(s), items[k]), items, k, parsed)

ParseScanned(scanned, items, k, parsed) ==
    IF scanned = None THEN None
    ELSE ParseItems(scanned[1].rest, items, k + 1,
                    [parsed EXCEPT ![items[k].spec] = scanned[1].value])

\* Parsed::to_naive_date: the date of the year, month and day fields; the
\* time fields are not used
to_naive_date(parsed) ==
    IF parsed = None THEN None
    ELSE from_ymd_opt(parsed[1]["Y"], parsed[1]["m"], parsed[1]["d"])

\* NaiveDate::parse_from_str(s, format)
parse_from_str(s, items) ==
    to_naive_date(ParseItems(s, items, 1, [f \in {"Y", "m", "d", "H", "M", "S"} |-> 0]))

\* the loop over date_formats: the date of the first format that parses s
FirstFormatDate(s, hits) ==
    IF hits = {} THEN None ELSE parse_from_str(s, date_formats[Min(hits)])

\* the regex ^(\d{1,4})/(\d{1,4})$: the positions of a '/' with one to four
\* digits on either side and nothing else
YearMonthCaptures(s) ==
    {p \in 2..Len(s) - 1 :
        /\ s[p] = 47
        /\ p - 1 <= 4 /\ Len(s) - p <= 4
        /\ \A k \in 1..Len(s) : k # p => s[k] \in 48..57}

\* the first number taken as the year and the second as the month, whatever
\* they are
YearMonthRangeUnchecked(first, second) ==
    date_range_to_timestamps(<<first, second, 1>>, <<first, second, 28>>)

\* the MM/YYYY or YYYY/MM branch once both numbers are parsed: the month's
\* first to last day, or Range(0, 0) when neither reading gives a year in
\* 1970..9999 with a month in 1..12
YearMonthRange(first, second) ==
    IF first \in 1970..9999 /\ second \in 1..12
    THEN date_range_to_timestamps(<<first, second, 1>>,
                                  <<first, second, DaysInMonth(first, second)>>)
    ELSE IF second \in 1970..9999 /\ first \in 1..12
    THEN date_range_to_timestamps(<<second, first, 1>>,
                                  <<second, first, DaysInMonth(second, first)>>)
    ELSE RangeZero

\* the MM/YYYY or YYYY/MM step of QueryDate::from
FromYearMonth(s, captures) ==
    IF captures = {} THEN RangeZero
    ELSE YearMonthRange(DecimalValue(SubSeq(s, 1, Min(captures) - 1)),
                        DecimalValue(SubSeq(s, Min(captures) + 1, Len(s))))

\* the date_formats step of QueryDate::from
FromFormats(s, parsed_date) ==
    IF parsed_date # None THEN date_range_to_timestamps(parsed_date[1], parsed_date[1])
    ELSE FromYearMonth(s, YearMonthCaptures(s))

\* the year step of QueryDate::from
FromYear(s, year) ==
    IF year # None /\ year[1] >= 1970 /\ year[1] <= 9999
    THEN date_range_to_timestamps(<<year[1], 1, 1>>, <<year[1], 12, 31>>)
    ELSE FromFormats(s, FirstFormatDate(s, {f \in 1..Len(date_formats) :
                                               parse_from_str(s, date_formats[f]) # None}))

\* QueryDate::from after the keyword, weekday and month names: the special
\* constants, the numeric relative dates, a year, the explicit formats, the
\* two-number form, and Range(0, 0) for everything else
QueryDateRange(s) ==
    IF s \in SpecialConstants THEN ClockRange(s)
    ELSE IF RelativeCaptures(s) # {} THEN ClockRange(s)
    ELSE FromYear(s, ParseI32(s))

\* QueryDate::from on the lowercased text: the keyword, the weekday names and
\* the month names, then the shapes that give a Range
QueryDateNamed(text) ==
       CASE text = <<117, 110, 107, 110, 111, 119, 110>> -> [kind |-> "Unknown"]
         [] text \in {<<115, 117, 110, 100, 97, 121>>, <<115, 117, 110>>} -> [kind |-> "Weekday", weekday |-> 0]
         [] text \in {<<109, 111, 110, 100, 97, 121>>, <<109, 111, 110>>} -> [kind |-> "Weekday", weekday |-> 1]
         [] text \in {<<116, 117, 101, 115, 100, 97, 121>>, <<116, 117, 101>>} -> [kind |-> "Weekday", weekday |-> 2]
         [] text \in {<<119, 101, 100, 110, 101, 115, 100, 97, 121>>, <<119, 101, 100>>} -> [kind |-> "Weekday", weekday |-> 3]
         [] text \in {<<116, 104, 117, 114, 115, 100, 97, 121>>, <<116, 104, 117>>} -> [kind |-> "Weekday", weekday |-> 4]
         [] text \in {<<102, 114, 105, 100, 97, 121>>, <<102, 114, 105>>} -> [kind |-> "Weekday", weekday |-> 5]
         [] text \in {<<115, 97, 116, 117, 114, 100, 97, 121>>, <<115, 97, 116>>} -> [kind |-> "Weekday", weekday |-> 6]
         [] text \in {<<106, 97, 110, 117, 97, 114, 121>>, <<106, 97, 110>>} -> [kind |-> "Month", month |-> 1]
         [] text \in {<<102, 101, 98, 114, 117, 97, 114, 121>>, <<102, 101, 98>>} -> [kind |-> "Month", month |-> 2]
         [] text \in {<<109, 97, 114, 99, 104>>, <<109, 97, 114>>} -> [kind |-> "Month", month |-> 3]
         [] text \in {<<97, 112, 114, 105, 108>>, <<97, 112, 114>>} -> [kind |-> "Month", month |-> 4]
         [] text = <<109, 97, 121>> -> [kind |-> "Month", month |-> 5]
         [] text \in {<<106, 117, 110, 101>>, <<106, 117, 110>>} -> [kind |-> "Month", month |-> 6]
         [] text \in {<<106, 117, 108, 121>>, <<106, 117, 108>>} -> [kind |-> "Month", month |-> 7]
         [] text \in {<<97, 117, 103, 117, 115, 116>>, <<97, 117, 103>>} -> [kind |-> "Month", month |-> 8]
         [] text \in {<<115, 101, 112, 116, 101, 109, 98, 101, 114>>, <<115, 101, 112>>} -> [kind |-> "Month", month |-> 9]
         [] text \in {<<111, 99, 116, 111, 98, 101, 114>>, <<111, 99, 116>>} -> [kind |-> "Month", month |-> 10]
         [] text \in {<<110, 111, 118, 101, 109, 98, 101, 114>>, <<110, 111, 118>>} -> [kind |-> "Month", month |-> 11]
         [] text \in {<<100, 101, 99, 101, 109, 98, 101, 114>>, <<100, 101, 99>>} -> [kind |-> "Month", month |-> 12]
         [] OTHER -> QueryDateRange(text)

\* QueryDate::from
QueryDate_from(s) == QueryDateNamed(to_lowercase(s))

\* the while loop of the "ext" arm: every remaining token is consumed, the
\* texts of Ident and StrLit tokens are collected
RECURSIVE ExtLoop(_, _)
ExtLoop(lexer, exts) ==
    LET n == next_token(lexer)
    IN IF n.token = None THEN [exts |-> exts, lexer |-> lexer]
       ELSE IF n.token[1].type \in {"Ident", "StrLit"}
       THEN ExtLoop(n.lexer, Append(exts, n.token[1].text))
       ELSE ExtLoop(n.lexer, exts)

\* the function names parse_function knows
SizeNames == {<<115, 105, 122, 101>>}
DateModifiedNames == {<<100, 97, 116, 101, 109, 111, 100, 105, 102, 105, 101, 100>>, <<100, 109>>}
DateCreatedNames == {<<100, 97, 116, 101, 99, 114, 101, 97, 116, 101, 100>>, <<100, 99>>}
ParentNames == {<<112, 97, 114, 101, 110, 116>>, <<105, 110, 102, 111, 108, 100, 101, 114>>, <<110, 111, 115, 117, 98, 102, 111, 108, 100, 101, 114, 115>>}
ExtNames == {<<101, 120, 116>>}

\* the match of parse_function on the lowercased name: c is the comparison
\* read by the size and date arms and n the token after it, p the token read
\* by the parent arm, r the outcome of the loop of the ext arm
FunctionNamed(name, lexer, c, n, p, r) ==
    CASE name \in SizeNames ->
           IF c.cmp = None THEN [func |-> None, lexer |-> c.lexer]
           ELSE IF n.token # None /\ n.token[1].type \in {"Ident", "StrLit"}
                   /\ ParseU64(n.token[1].text) # None
           THEN [func |-> Some(Size(c.cmp[1], ParseU64(n.token[1].text)[1])),
                 lexer |-> n.lexer]
           ELSE [func |-> None, lexer |-> n.lexer]
      [] name \in DateModifiedNames \cup DateCreatedNames ->
           IF c.cmp = None THEN [func |-> None, lexer |-> c.lexer]
           ELSE IF n.token # None /\ n.token[1].type \in {"Ident", "StrLit"}
           THEN [func |-> Some(IF name \in DateCreatedNames
                               THEN DateCreated(c.cmp[1], QueryDate_from(n.token[1].text))
                               ELSE DateModified(c.cmp[1], QueryDate_from(n.token[1].text))),
                 lexer |-> n.lexer]
           ELSE [func |-> None, lexer |-> n.lexer]
      [] name \in ParentNames ->
           IF p.token # None /\ p.token[1].type \in {"Ident", "StrLit"}
           THEN [func |-> Some(Parent(p.token[1].text)), lexer |-> p.lexer]
           ELSE [func |-> None, lexer |-> p.lexer]
      [] name \in ExtNames ->
           IF r.exts # <<>> THEN [func |-> Some(Ext(r.exts)), lexer |-> r.lexer]
           ELSE [func |-> None, lexer |-> r.lexer]
      [] OTHER -> [func |-> None, lexer |-> lexer]

\* parse_function: the function if one was parsed, and the lexer afterwards
\* (tokens read for a function that fails stay consumed)
parse_function(lexer, raw_name) ==
    FunctionNamed(to_lowercase(raw_name), lexer, get_comparison(lexer),
                  next_token(get_comparison(lexer).lexer), next_token(lexer),
                  ExtLoop(lexer, <<>>))

\* as parse_modifier, but "folder" leaves file_only as it is
parse_modifier_folder_keeps_file(ident, modifiers) ==
    LET lower_ident == to_lowercase(ident) IN
    CASE lower_ident = <<99, 97, 115, 101>> -> Some([modifiers EXCEPT !.case_sensitive = TRUE])
      [] lower_ident = <<110, 111, 99, 97, 115, 101>> -> Some([modifiers EXCEPT !.case_sensitive = FALSE])
      [] lower_ident = <<100, 105, 97, 99, 114, 105, 116, 105, 99, 115>> ->
           Some([modifiers EXCEPT !.diacritics_sensitive = TRUE])
      [] lower_ident = <<110, 111, 100, 105, 97, 99, 114, 105, 116, 105, 99, 115>> ->
           Some([modifiers EXCEPT !.diacritics_sensitive = FALSE])
      [] lower_ident \in {<<102, 105, 108, 101>>, <<102, 105, 108, 101, 115>>} ->
           Some([modifiers EXCEPT !.file_only = TRUE, !.folder_only = FALSE])
      [] lower_ident = <<110, 111, 102, 105, 108, 101, 111, 110, 108, 121>> -> Some([modifiers EXCEPT !.file_only = FALSE])
      [] lower_ident \in {<<102, 111, 108, 100, 101, 114>>, <<102, 111, 108, 100, 101, 114, 115>>} ->
           Some([modifiers EXCEPT !.folder_only = TRUE])
      [] lower_ident = <<110, 111, 102, 111, 108, 100, 101, 114, 111, 110, 108, 121>> -> Some([modifiers EXCEPT !.folder_only = FALSE])
      [] lower_ident = <<112, 97, 116, 104>> -> Some([modifiers EXCEPT !.match_path = TRUE])
      [] lower_ident = <<110, 111, 112, 97, 116, 104>> -> Some([modifiers EXCEPT !.match_path = FALSE])
      [] lower_ident = <<114, 101, 103, 101, 120>> -> Some([modifiers EXCEPT !.regex = TRUE])
      [] lower_ident = <<110, 111, 114, 101, 103, 101, 120>> -> Some([modifiers EXCEPT !.regex = FALSE])
      [] lower_ident \in {<<119, 104, 111, 108, 101, 102, 105, 108, 101, 110, 97, 109, 101>>, <<119, 102, 110>>, <<101, 120, 97, 99, 116>>} ->
           Some([modifiers EXCEPT !.whole_filename = TRUE])
      [] lower_ident \in {<<110, 111, 119, 102, 110>>, <<110, 111, 119, 104, 111, 108, 101, 102, 105, 108, 101, 110, 97, 109, 101>>} ->
           Some([modifiers EXCEPT !.whole_filename = FALSE])
      [] lower_ident \in {<<119, 104, 111, 108, 101, 119, 111, 114, 100>>, <<119, 119>>} ->
           Some([modifiers EXCEPT !.whole_word = TRUE])
      [] lower_ident \in {<<110, 111, 119, 104, 111, 108, 101, 119, 111, 114, 100>>, <<110, 111, 119, 119>>} ->
           Some([modifiers EXCEPT !.whole_word = FALSE])
      [] lower_ident = <<119, 105, 108, 100, 99, 97, 114, 100, 115>> -> Some([modifiers EXCEPT !.wildcards = TRUE])
      [] lower_ident = <<110, 111, 119, 105, 108, 100, 99, 97, 114, 100, 115>> -> Some([modifiers EXCEPT !.wildcards = FALSE])
      [] OTHER -> None

\* parse_modifier
parse_modifier(ident, modifiers) ==
    LET lower_ident == to_lowercase(ident) IN
    CASE lower_ident = <<99, 97, 115, 101>> -> Some([modifiers EXCEPT !.case_sensitive = TRUE])
      [] lower_ident = <<110, 111, 99, 97, 115, 101>> -> Some([modifiers EXCEPT !.case_sensitive = FALSE])
      [] lower_ident = <<100, 105, 97, 99, 114, 105, 116, 105, 99, 115>> ->
           Some([modifiers EXCEPT !.diacritics_sensitive = TRUE])
      [] lower_ident = <<110, 111, 100, 105, 97, 99, 114, 105, 116, 105, 99, 115>> ->
           Some([modifiers EXCEPT !.diacritics_sensitive = FALSE])
      [] lower_ident \in {<<102, 105, 108, 101>>, <<102, 105, 108, 101, 115>>} ->
           Some([modifiers EXCEPT !.file_only = TRUE, !.folder_only = FALSE])
      [] lower_ident = <<110, 111, 102, 105, 108, 101, 111, 110, 108, 121>> -> Some([modifiers EXCEPT !.file_only = FALSE])
      [] lower_ident \in {<<102, 111, 108, 100, 101, 114>>, <<102, 111, 108, 100, 101, 114, 115>>} ->
           Some([modifiers EXCEPT !.folder_only = TRUE, !.file_only = FALSE])
      [] lower_ident = <<110, 111, 102, 111, 108, 100, 101, 114, 111, 110, 108, 121>> -> Some([modifiers EXCEPT !.folder_only = FALSE])
      [] lower_ident = <<112, 97, 116, 104>> -> Some([modifiers EXCEPT !.match_path = TRUE])
      [] lower_ident = <<110, 111, 112, 97, 116, 104>> -> Some([modifiers EXCEPT !.match_path = FALSE])
      [] lower_ident = <<114, 101, 103, 101, 120>> -> Some([modifiers EXCEPT !.regex = TRUE])
      [] lower_ident = <<110, 111, 114, 101, 103, 101, 120>> -> Some([modifiers EXCEPT !.regex = FALSE])
      [] lower_ident \in {<<119, 104, 111, 108, 101, 102, 105, 108, 101, 110, 97, 109, 101>>, <<119, 102, 110>>, <<101, 120, 97, 99, 116>>} ->
           Some([modifiers EXCEPT !.whole_filename = TRUE])
      [] lower_ident \in {<<110, 111, 119, 102, 110>>, <<110, 111, 119, 104, 111, 108, 101, 102, 105, 108, 101, 110, 97, 109, 101>>} ->
           Some([modifiers EXCEPT !.whole_filename = FALSE])
      [] lower_ident \in {<<119, 104, 111, 108, 101, 119, 111, 114, 100>>, <<119, 119>>} ->
           Some([modifiers EXCEPT !.whole_word = TRUE])
      [] lower_ident \in {<<110, 111, 119, 104, 111, 108, 101, 119, 111, 114, 100>>, <<110, 111, 119, 119>>} ->
           Some([modifiers EXCEPT !.whole_word = FALSE])
      [] lower_ident = <<119, 105, 108, 100, 99, 97, 114, 100, 115>> -> Some([modifiers EXCEPT !.wildcards = TRUE])
      [] lower_ident = <<110, 111, 119, 105, 108, 100, 99, 97, 114, 100, 115>> -> Some([modifiers EXCEPT !.wildcards = FALSE])
      [] OTHER -> None

\* the while loop of parse_condition that builds search_text: tokens are
\* appended until a Whitespace or Or token, or the end of the input, is next
RECURSIVE CollectText(_, _)
CollectText(lexer, search_text) ==
    LET token == peek_token(lexer)
    IN IF token = None \/ token[1].type \in {"Whitespace", "Or"}
       THEN [text |-> search_text, lexer |-> lexer]
       ELSE CollectText(next_token(lexer).lexer, search_text \o to_string(token[1]))

\* results of the parsing functions: the expression and the lexer afterwards,
\* or the abort of unreachable!()
Parsed(expr, lexer) == [kind |-> "expr", val |-> expr, lexer |-> lexer]
Aborted == [kind |-> "panic", val |-> <<>>, lexer |-> <<>>]

\* the tail of parse_condition: the token starts a text literal
TextCondition(token, lexer, modifiers) ==
    LET collected == CollectText(lexer, to_string(token))
    IN Parsed(Literal(create_query_literal(collected.text, modifiers)), collected.lexer)

RECURSIVE parse_condition(_, _)
RECURSIVE ParseExpressionLoop(_, _, _)

\* one turn of the while loop of parse_expression, token the token peeked
ExpressionStep(token, lexer, modifiers, exprs) ==
    IF token = None THEN Parsed(exprs_to_and(exprs), lexer)
    ELSE IF token[1].type = "Whitespace"
    THEN ParseExpressionLoop(next_token(lexer).lexer, modifiers, exprs)
    ELSE IF token[1].type = "Or"
    THEN LET right_expr == ParseExpressionLoop(next_token(lexer).lexer, modifiers, <<>>)
         IN IF right_expr.kind = "panic" THEN Aborted
            ELSE Parsed(Or(exprs_to_and(exprs), right_expr.val), right_expr.lexer)
    ELSE LET condition == parse_condition(lexer, modifiers)
         IN IF condition.kind = "panic" THEN Aborted
            ELSE ParseExpressionLoop(condition.lexer, modifiers,
                                     Append(exprs, condition.val))

\* parse_expression: the while loop with the conditions collected so far
ParseExpressionLoop(lexer, modifiers, exprs) ==
    ExpressionStep(peek_token(lexer), lexer, modifiers, exprs)

\* parse_expression
parse_expression(lexer, modifiers) == ParseExpressionLoop(lexer, modifiers, <<>>)

\* the Ident arm of parse_condition after the Colon was consumed: f is the
\* outcome of parse_function, new_modifiers that of parse_modifier
NamedCondition(token, f, new_modifiers, modifiers) ==
    IF f.func # None THEN Parsed(Function(f.func[1]), f.lexer)
    ELSE IF new_modifiers # None THEN parse_condition(f.lexer, new_modifiers[1])
    ELSE TextCondition(token, f.lexer, modifiers)

\* the match of parse_condition on the token read, n the result of
\* next_token(lexer)
ConditionAt(n, lexer, modifiers) ==
    IF n.token = None THEN Parsed(EmptyTextLiteral, lexer)
    ELSE CASE n.token[1].type = "Ident" /\ peek_token(n.lexer) = Some(QueryToken("Colon", <<>>)) ->
                NamedCondition(n.token[1],
                               parse_function(next_token(n.lexer).lexer, n.token[1].text),
                               parse_modifier(n.token[1].text, modifiers), modifiers)
           [] n.token[1].type = "Not" ->
                LET sub_expr == parse_condition(n.lexer, modifiers)
                IN IF sub_expr.kind = "panic" THEN Aborted
                   ELSE Parsed(Not(sub_expr.val), sub_expr.lexer)
           [] n.token[1].type = "Whitespace" -> Aborted
           [] n.token[1].type = "LessThan" -> parse_expression(n.lexer, modifiers)
           [] OTHER -> TextCondition(n.token[1], n.lexer, modifiers)

\* parse_condition
parse_condition(lexer, modifiers) == ConditionAt(next_token(lexer), lexer, modifiers)

\* parse_query
parse_query(input) ==
    IF trim(input) = <<>> THEN [kind |-> "expr", val |-> EmptyTextLiteral]
    ELSE LET r == parse_expression(QueryLexer_new(input), QueryModifiersTracking_default)
         IN [kind |-> r.kind, val |-> r.val]

----------------------------------------------------------------------------
(* Sorting slices of element indices *)

\* largest tree of the sorting runs
MaxSortElems == 4
\* largest number of fields sorted by in one run
MaxTables == 2

\* the file list of the sorting runs, "a", "a/a" and "b": two equal names,
\* two equal sizes, dates that order differently from the sizes, one date
\* missing; the root has neither size nor dates
SortFiles ==
    {[path |-> <<97>>, meta |-> Meta(Some(10), Some(20), None, 0)],
     [path |-> <<97, SLASH, 97>>, meta |-> Meta(Some(10), Some(10), Some(20), 0)],
     [path |-> <<98>>, meta |-> Meta(Some(30), Some(10), Some(20), 0)]}

\* the slices handed to sort_by: candidate lists are ascending
Slices == {Ascending(S) : S \in SUBSET (0..(Len(elements) - 1))}

\* an importer's upsert before the Searcher is built
SortUpsert(path, m) == Upsert(path, m) /\ Len(elements') <= MaxSortElems

\* searcher.sorter.sort_by(&searcher.file_tree, elems, field, order); the
\* slice is sorted in place and stays with the caller
SortBy(elems, field, order, again) ==
    /\ built
    /\ \/ sorter[SlotOf(field)] # None
       \/ Cardinality({f \in SortFields : sorter[SlotOf(f)] # None}) < MaxTables
    /\ \E o \in sort_by(sorter, TheTree, elems, field, order) :
          /\ sorter' = o.sorter
          /\ ret' = o.ret
    /\ call' = [op |-> "sort_by", elements |-> elems, field |-> field,
                order |-> order, again |-> again]
    /\ UNCHANGED <<treeVars, built, index, num_elements, codecVars, threadVars>>

\* a caller sorts a fresh candidate slice
SortFresh(elems, field, order) == ~Pending /\ SortBy(elems, field, order, FALSE)

\* the caller sorts the slice it has just sorted once more by the same field
SortAgain(order) ==
    /\ call.op = "sort_by" /\ ret.kind = "list"
    /\ SortBy(ret.val, call.field, order, TRUE)

NextSort ==
    \/ \E f \in SortFiles : SortUpsert(f.path, f.meta)
    \/ Build
    \/ \E elems \in Slices, f \in SortFields, o \in SortOrders : SortFresh(elems, f, o)
    \/ \E o \in SortOrders : SortAgain(o)
    \/ Return

SpecSort == Init /\ [][NextSort]_vars

----------------------------------------------------------------------------
(* Sorter claims *)

\* C13: a rank table that has been built has one entry per element of the
\* tree and is a permutation of 0 .. |tree|-1, ties and missing values
\* included.
C13_RankTablePermutation ==
    \A f \in SortFields :
        sorter[SlotOf(f)] # None =>
            /\ Len(sorter[SlotOf(f)][1]) = Len(elements)
            /\ Members(sorter[SlotOf(f)][1]) = 0..(Len(elements) - 1)

\* C13 witness: the date-created table exists for a tree in which two
\* elements have the same date and two have none.
C13_Witness ==
    /\ sorter.date_created_order # None
    /\ \E i, j \in 1..Len(elements) :
          /\ i # j
          /\ elements[i].date_created # None
          /\ elements[i].date_created = elements[j].date_created
    /\ \E i, j \in 1..Len(elements) :
          i # j /\ elements[i].date_created = None /\ elements[j].date_created = None

NoDuplicates(s) == \A j, k \in 1..Len(s) : j # k => s[j] # s[k]

\* C14: sort_by turns a duplicate-free slice of valid indices into a
\* permutation of the same indices whose field values never decrease
\* (Ascending) or never increase (Descending); None orders before Some and
\* filenames order by their bytes.
C14_SortByOrdersSlice ==
    call.op = "sort_by" =>
        /\ ret.kind = "list"
        /\ Len(ret.val) = Len(call.elements)
        /\ Members(ret.val) = Members(call.elements)
        /\ NoDuplicates(ret.val)
        /\ \A k \in 1..(Len(ret.val) - 1) :
              IF call.order = "Ascending"
              THEN FieldCmp(TheTree, call.field, ret.val[k], ret.val[k + 1]) <= 0
              ELSE FieldCmp(TheTree, call.field, ret.val[k], ret.val[k + 1]) >= 0

\* C14 witness: a slice of three elements whose sizes are missing, large and
\* small has been sorted by Size ascending into positions [0, 2, 1].
C14_Witness ==
    /\ call.op = "sort_by" /\ call.field = "Size" /\ call.order = "Ascending"
    /\ Len(call.elements) = 3
    /\ elements[call.elements[1] + 1].size = None
    /\ elements[call.elements[2] + 1].size = Some(30)
    /\ elements[call.elements[3] + 1].size = Some(10)
    /\ ret.val = <<call.elements[1], call.elements[3], call.elements[2]>>

\* C15: sorting the slice a second time with the same field and order leaves
\* it unchanged, and sorting it with the same field and the opposite order
\* yields exactly its reverse.
C15_SortIdempotentAndReversible ==
    [][(call.op = "sort_by" /\ call'.op = "sort_by" /\ ret.kind = "list"
          /\ call'.elements = ret.val /\ call'.field = call.field)
       => /\ ret'.kind = "list"
          /\ call'.order = call.order => ret'.val = ret.val
          /\ call'.order # call.order => ret'.val = Reverse(ret.val)]_vars

\* C15 witness: a slice holding two elements of equal field value has been
\* sorted a second time and came back in a different order (a reversal).
C15_Witness ==
    /\ call.op = "sort_by" /\ call.again
    /\ ret.kind = "list"
    /\ ret.val # call.elements
    /\ \E j, k \in 1..Len(ret.val) :
          j # k /\ FieldCmp(TheTree, call.field, ret.val[j], ret.val[k]) = 0

----------------------------------------------------------------------------
(* Parsing query strings *)

\* largest number of pieces a query string is put together from
MaxPieces == 3

\* the pieces: a  b  ' '  ' | '  !  ' < '  ' > '  :  "  file:  Folders:
\* size:  >  10  ext:  regex:
QueryPieces ==
    {<<97>>, <<98>>, <<32>>, <<32, 124, 32>>, <<33>>, <<32, 60, 32>>, <<32, 62, 32>>, <<58>>,
     <<QUOTE>>, <<102, 105, 108, 101, 58>>, <<70, 111, 108, 100, 101, 114, 115, 58>>, <<115, 105, 122, 101, 58>>, <<62>>, <<49, 48>>,
     <<101, 120, 116, 58>>, <<114, 101, 103, 101, 120, 58>>}

\* the query strings of up to n pieces
RECURSIVE QueriesOfPieces(_)
QueriesOfPieces(n) ==
    IF n = 0 THEN {<<>>}
    ELSE QueriesOfPieces(n - 1)
         \cup {q \o p : q \in QueriesOfPieces(n - 1), p \in QueryPieces}

\* the words of the longer queries
QueryWordsAB == {<<97>>, <<98>>}

\* A < B | C > D
GroupQuery(A, B, C, D) == A \o <<32, 60, 32>> \o B \o <<32, 124, 32>> \o C \o <<32, 62, 32>> \o D

\* notes.txt < path:homework | size:>100KB >
NotesQuery == <<110, 111, 116, 101, 115, 46, 116, 120, 116, 32, 60, 32, 112, 97, 116, 104, 58, 104, 111, 109, 101, 119, 111, 114, 107, 32, 124, 32, 115, 105, 122, 101, 58, 62, 49, 48, 48, 75, 66, 32, 62>>
\* size:>1000 file:"example.txt" !ext:tmp
LexerBasicQuery == <<115, 105, 122, 101, 58, 62, 49, 48, 48, 48, 32, 102, 105, 108, 101, 58, 34, 101, 120, 97, 109, 112, 108, 101, 46, 116, 120, 116, 34, 32, 33, 101, 120, 116, 58, 116, 109, 112>>

\* longer query strings: the worked examples of the parser and lexer tests
\* and of the query syntax
ExampleQueries ==
    {NotesQuery, LexerBasicQuery,
     <<33, 32, 102, 111, 111>>, <<99, 97, 115, 101, 58, 32, 102, 111, 111>>, <<102, 111, 111, 58, 98, 97, 114>>, <<102, 111, 111, 61, 98, 97, 114, 33, 98, 97, 122>>,
     <<102, 105, 108, 101, 58, 34, 105, 110, 99, 111, 109, 112, 108, 101, 116, 101, 46, 116, 120, 116, 32, 115, 105, 122, 101, 58, 62, 49, 48, 48, 48>>,
     <<97, 32, 98, 32, 99>>, <<97, 32, 98, 32, 124, 32, 99, 32, 100>>, <<97, 32, 124, 32, 98, 32, 124, 32, 99>>, <<97, 32, 98, 32, 99, 32, 100, 32, 124, 32, 97>>,
     <<102, 105, 108, 101, 58, 102, 111, 108, 100, 101, 114, 58, 102, 105, 108, 101, 58, 97>>, <<33, 102, 105, 108, 101, 58, 97, 32, 102, 111, 108, 100, 101, 114, 58, 98>>, <<115, 105, 122, 101, 58, 62, 97, 98, 99>>}
    \cup {GroupQuery(A, B, C, D) : A, B, C, D \in QueryWordsAB}

\* conditions of each kind with the expression each parses to on its own:
\* a   size:>10   file:b   !a
Conditions ==
    {[text |-> <<97>>, expr |-> Literal(TextQuery(<<97>>, FALSE, FALSE, FALSE, FALSE,
                                                   FALSE, FALSE, FALSE))],
     [text |-> <<115, 105, 122, 101, 58, 62, 49, 48>>, expr |-> Function(Size("Gt", <<49, 48>>))],
     [text |-> <<102, 105, 108, 101, 58, 98>>, expr |-> Literal(TextQuery(<<98>>, FALSE, FALSE, TRUE, FALSE,
                                                      FALSE, FALSE, FALSE))],
     [text |-> <<33, 97>>, expr |-> Not(Literal(TextQuery(<<97>>, FALSE, FALSE, FALSE, FALSE,
                                                       FALSE, FALSE, FALSE)))]}

\* three conditions separated by spaces
ConditionQuery(c1, c2, c3) == c1.text \o <<SPACE>> \o c2.text \o <<SPACE>> \o c3.text

QueryInputs ==
    QueriesOfPieces(MaxPieces) \cup ExampleQueries
    \cup {ConditionQuery(c1, c2, c3) : c1, c2, c3 \in Conditions}

\* a caller holds a query string
InitParse ==
    /\ InitTree
    /\ built = FALSE
    /\ index = <<>>
    /\ num_elements = 0
    /\ sorter = Sorter_new
    /\ call \in {[op |-> "input", input |-> q] : q \in QueryInputs}
    /\ ret = NoRet
    /\ postings_list = <<>>
    /\ cpl = [indices |-> <<>>, length |-> 0]
    /\ decoded = <<>>
    /\ NoThreads

\* parse_query(input)
ParseQuery ==
    /\ call.op = "input"
    /\ call' = [op |-> "parse_query", input |-> call.input]
    /\ ret' = parse_query(call.input)
    /\ UNCHANGED <<treeVars, indexVars, codecVars, threadVars>>

NextParse == ParseQuery

SpecParse == InitParse /\ [][NextParse]_vars

----------------------------------------------------------------------------
(* Parser claims *)

\* C16: parse_query returns an expression tree for every input and never
\* aborts, also when whitespace follows '!' or the ':' of a modifier, for
\* unknown names before ':' and for unterminated string literals.
C16_ParseQueryTotal ==
    call.op = "parse_query" => ret.kind = "expr"

\* the text literal of a bare word
WordLiteral(w) == Literal(TextQuery(w, FALSE, FALSE, FALSE, FALSE, FALSE, FALSE, FALSE))

\* C17: in "A < B | C > D" the bracketed conditions form one sub-expression,
\* the closing '>' yields no condition, and D joins the outer AND chain; the
\* notes.txt query parses to And(notes.txt, Or(homework with match_path,
\* Size(Gt, 100000))).
C17_GroupClosedByGreaterThan ==
    call.op = "parse_query" =>
        /\ \A A, B, C, D \in QueryWordsAB :
              call.input = GroupQuery(A, B, C, D) =>
                  ret = [kind |-> "expr",
                         val |-> And(And(WordLiteral(A), Or(WordLiteral(B), WordLiteral(C))),
                                     WordLiteral(D))]
        /\ call.input = NotesQuery =>
              ret = [kind |-> "expr",
                     val |-> And(WordLiteral(<<110, 111, 116, 101, 115, 46, 116, 120, 116>>),
                                 Or(Literal(TextQuery(<<104, 111, 109, 101, 119, 111, 114, 107>>, FALSE, FALSE, FALSE,
                                                      FALSE, TRUE, FALSE, FALSE)),
                                    Function(Size("Gt", <<49, 48, 48, 48, 48, 48>>))))]

\* the parts of s between occurrences of sep
RECURSIVE SplitOn(_, _)
SplitOn(s, sep) ==
    LET at == {k \in 1..Len(s) : s[k] = sep}
    IN IF at = {} THEN <<s>>
       ELSE <<SubSeq(s, 1, Min(at) - 1)>> \o SplitOn(SubSeq(s, Min(at) + 1, Len(s)), sep)

\* the non-empty parts of s between spaces
WordsOf(s) == SelectSeq(SplitOn(s, SPACE), LAMBDA w : w # <<>>)

\* And(... And(And(w1, w2), w3) ..., wn) of the words' literals
RECURSIVE LeftChain(_)
LeftChain(words) ==
    IF words = <<>> THEN EmptyTextLiteral
    ELSE IF Len(words) = 1 THEN WordLiteral(words[1])
    ELSE And(LeftChain(SubSeq(words, 1, Len(words) - 1)), WordLiteral(words[Len(words)]))

\* Or(chain1, Or(chain2, ...)) of the parts between '|'
RECURSIVE RightOrs(_)
RightOrs(parts) ==
    IF Len(parts) = 1 THEN LeftChain(WordsOf(parts[1]))
    ELSE Or(LeftChain(WordsOf(parts[1])), RightOrs(Tail(parts)))

\* a query of bare words a..d, spaces and '|', each '|' set off by a space
\* before it
PlainQuery(input) ==
    /\ \A k \in 1..Len(input) : input[k] \in (97..100) \cup {SPACE, PIPE}
    /\ \A k \in 2..Len(input) : input[k] = PIPE => input[k - 1] = SPACE

\* C18: whitespace-separated conditions (bare words, and conditions of each
\* kind taken three at a time) parse to the left-leaning And chain,
\* '|' binds looser and nests to the right, an empty side of '|' and the
\* empty input give the empty text literal; the size/file/ext example gives
\* And(And(Size(Gt, 1000), example.txt with file_only), Not(Ext([tmp]))).
C18_LeftAndChainsRightOrs ==
    call.op = "parse_query" =>
        /\ PlainQuery(trim(call.input)) =>
              ret = [kind |-> "expr", val |-> RightOrs(SplitOn(trim(call.input), PIPE))]
        /\ \A c1, c2, c3 \in Conditions :
              call.input = ConditionQuery(c1, c2, c3) =>
                  ret = [kind |-> "expr", val |-> And(And(c1.expr, c2.expr), c3.expr)]
        /\ call.input = LexerBasicQuery =>
              ret = [kind |-> "expr",
                     val |-> And(And(Function(Size("Gt", <<49, 48, 48, 48>>)),
                                     Literal(TextQuery(<<101, 120, 97, 109, 112, 108, 101, 46, 116, 120, 116>>, FALSE, FALSE, TRUE,
                                                       FALSE, FALSE, FALSE, FALSE))),
                                 Not(Function(Ext(<<<<116, 109, 112>>>>))))]

\* C18 witness: "a b c d | a" has parsed into an Or whose left side is a
\* left-leaning chain of four literals.
C18_Witness ==
    /\ call.op = "parse_query"
    /\ call.input = <<97, 32, 98, 32, 99, 32, 100, 32, 124, 32, 97>>
    /\ ret.kind = "expr"
    /\ ret.val.kind = "Or"
    /\ ret.val.left.kind = "And"
    /\ ret.val.left.left.kind = "And"
    /\ ret.val.left.left.left.kind = "And"
    /\ ret.val.right = WordLiteral(<<97>>)

\* the names parse_function or parse_modifier act on
KnownName(name) ==
    \/ to_lowercase(name) \in SizeNames \cup DateModifiedNames \cup DateCreatedNames
                                \cup ParentNames \cup ExtNames
    \/ parse_modifier(name, QueryModifiersTracking_default) # None

\* a query that is one run of tokens starting with an identifier: no
\* whitespace, '|' or '"', not starting with an operator character, and the
\* name before the first ':' neither a function nor a modifier
OneLiteralQuery(input) ==
    /\ input # <<>>
    /\ \A k \in 1..Len(input) : ~IsWhitespace(input[k]) /\ input[k] \notin {PIPE, QUOTE}
    /\ input[1] \notin {COLON, EQUALS, LESS, GREATER, BANG}
    /\ ~KnownName(SplitOn(input, COLON)[1])

\* C19: the text of a literal is the concatenation of all consecutive tokens
\* up to the next whitespace or '|', none dropped; an unknown name before ':'
\* stays in the text together with the ':' and the value.
C19_LiteralKeepsEveryToken ==
    (call.op = "parse_query" /\ OneLiteralQuery(trim(call.input))) =>
        ret = [kind |-> "expr", val |-> WordLiteral(trim(call.input))]

\* the text literals of an expression
RECURSIVE TextLiterals(_)
TextLiterals(expr) ==
    CASE expr.kind = "Literal" ->
           IF expr.literal.kind = "Text" THEN {expr.literal} ELSE {}
      [] expr.kind = "Function" -> {}
      [] expr.kind = "Not" -> TextLiterals(expr.expr)
      [] expr.kind \in {"And", "Or"} -> TextLiterals(expr.left) \cup TextLiterals(expr.right)

FileNames == {<<102, 105, 108, 101>>, <<102, 105, 108, 101, 115>>}
FolderNames == {<<102, 111, 108, 100, 101, 114>>, <<102, 111, 108, 100, 101, 114, 115>>}

\* a query m1:m2:...:w of file/folder modifiers before a bare word
FileFolderChain(input) ==
    LET parts == SplitOn(input, COLON)
    IN /\ Len(parts) >= 2
       /\ \A k \in 1..(Len(parts) - 1) : to_lowercase(parts[k]) \in FileNames \cup FolderNames
       /\ parts[Len(parts)] # <<>>
       /\ \A k \in 1..Len(parts[Len(parts)]) : parts[Len(parts)][k] \in 97..100

\* C20: no text literal of a parse result has both file_only and
\* folder_only; after a chain of file/folder modifiers the flags are those
\* of the last one.
C20_FileAndFolderExclusive ==
    (call.op = "parse_query" /\ ret.kind = "expr") =>
        /\ \A literal \in TextLiterals(ret.val) :
              ~(literal.file_only /\ literal.folder_only)
        /\ FileFolderChain(call.input) =>
              LET parts == SplitOn(call.input, COLON)
                  last == to_lowercase(parts[Len(parts) - 1])
              IN ret.val = Literal(TextQuery(parts[Len(parts)], FALSE, FALSE,
                                             last \in FileNames, last \in FolderNames,
                                             FALSE, FALSE, FALSE))

\* C20 witness: "file:Folders:a" has parsed into a literal with folder_only
\* set and file_only cleared.
C20_Witness ==
    /\ call.op = "parse_query"
    /\ call.input = <<102, 105, 108, 101, 58, 70, 111, 108, 100, 101, 114, 115, 58, 97>>
    /\ ret.kind = "expr"
    /\ ret.val.kind = "Literal"
    /\ ret.val.literal.folder_only
    /\ ~ret.val.literal.file_only

----------------------------------------------------------------------------
(* Lexing query strings *)

\* the tokens next_token yields until it returns None, each with the
\* positions of its first and last character in the trimmed input
RECURSIVE TokensFrom(_, _)
TokensFrom(lexer, tokens) ==
    IF next_token(lexer).token = None THEN tokens
    ELSE TokensFrom(next_token(lexer).lexer,
                    Append(tokens, [token |-> next_token(lexer).token[1],
                                    first |-> lexer.read_position + 1,
                                    last |-> next_token(lexer).lexer.read_position]))

\* wholefilename:report=v<2.0>!.txt size:>=5000
SpecialCharactersQuery == <<119, 104, 111, 108, 101, 102, 105, 108, 101, 110, 97, 109, 101, 58, 114, 101, 112, 111, 114, 116, 61, 118, 60, 50, 46, 48, 62, 33, 46, 116, 120, 116, 32, 115, 105, 122, 101, 58, 62, 61, 53, 48, 48, 48>>
\* file:"incomplete.txt size:>1000
UnterminatedQuery == <<102, 105, 108, 101, 58, 34, 105, 110, 99, 111, 109, 112, 108, 101, 116, 101, 46, 116, 120, 116, 32, 115, 105, 122, 101, 58, 62, 49, 48, 48, 48>>

LexerInputs ==
    QueriesOfPieces(MaxPieces)
    \cup {SpecialCharactersQuery, UnterminatedQuery, LexerBasicQuery, NotesQuery,
          <<97, 32, 32, 9, 32, 98>>, <<114, 101, 112, 111, 114, 116, 61, 118, 60, 50, 46, 48, 62, 33, 46, 116, 120, 116>>, <<34, 97, 32, 98>>}

\* a caller holds a query string
InitLex ==
    /\ InitTree
    /\ built = FALSE
    /\ index = <<>>
    /\ num_elements = 0
    /\ sorter = Sorter_new
    /\ call \in {[op |-> "input", input |-> q] : q \in LexerInputs}
    /\ ret = NoRet
    /\ postings_list = <<>>
    /\ cpl = [indices |-> <<>>, length |-> 0]
    /\ decoded = <<>>
    /\ NoThreads

\* QueryLexer::new(input), then next_token until None
Lex ==
    /\ call.op = "input"
    /\ call' = [op |-> "lex", input |-> call.input]
    /\ ret' = [kind |-> "tokens", val |-> TokensFrom(QueryLexer_new(call.input), <<>>)]
    /\ UNCHANGED <<treeVars, indexVars, codecVars, threadVars>>

SpecLex == InitLex /\ [][Lex]_vars

----------------------------------------------------------------------------
(* Lexer claims *)

\* the characters that start a token of their own
OperatorChars == {COLON, EQUALS, LESS, GREATER, BANG, PIPE, QUOTE}

\* the last position of the run from first on whose characters are not in stops
RunEnd(s, first, stops) ==
    IF \E k \in first..Len(s) : s[k] \in stops
    THEN Min({k \in first..Len(s) : s[k] \in stops}) - 1
    ELSE Len(s)

WhitespaceChars == {c \in AsciiChars : IsWhitespace(c)}

\* C21: a token starting with a character that is neither whitespace nor one
\* of : = < > ! | " is an identifier running up to the next whitespace or
\* ':', operator characters included; a string literal without a closing
\* quote runs to the end of the input; a run of whitespace is one Whitespace
\* token.
C21_LexerIdentifierRule ==
    call.op = "lex" =>
        LET s == trim(call.input) IN
        /\ \A k \in 1..Len(ret.val) :
              LET t == ret.val[k]
                  ch == s[t.first]
              IN /\ t.first = IF k = 1 THEN 1 ELSE ret.val[k - 1].last + 1
                 /\ ch \notin OperatorChars \cup WhitespaceChars =>
                       /\ t.last = RunEnd(s, t.first + 1, WhitespaceChars \cup {COLON})
                       /\ t.token = QueryToken("Ident", SubSeq(s, t.first, t.last))
                 /\ (ch = QUOTE /\ \A j \in (t.first + 1)..Len(s) : s[j] # QUOTE) =>
                       /\ t.last = Len(s)
                       /\ t.token = QueryToken("StrLit", SubSeq(s, t.first + 1, Len(s)))
                 /\ ch \in WhitespaceChars =>
                       /\ t.last = RunEnd(s, t.first, AsciiChars \ WhitespaceChars)
                       /\ t.token = QueryToken("Whitespace", <<>>)
        /\ ret.val # <<>> => ret.val[Len(ret.val)].last = Len(s)
        /\ ret.val = <<>> => s = <<>>
        /\ \A k \in 1..(Len(ret.val) - 1) :
              ~(ret.val[k].token.type = "Whitespace" /\ ret.val[k + 1].token.type = "Whitespace")

\* the special-characters example: report=v<2.0>!.txt is one identifier, and
\* the unterminated example ends in one string literal
C21_Witness ==
    /\ call.op = "lex"
    /\ \/ /\ call.input = SpecialCharactersQuery
          /\ Len(ret.val) = 8
          /\ ret.val[3].token = QueryToken("Ident", <<114, 101, 112, 111, 114, 116, 61, 118, 60, 50, 46, 48, 62, 33, 46, 116, 120, 116>>)
          /\ ret.val[4].token = QueryToken("Whitespace", <<>>)
       \/ /\ call.input = UnterminatedQuery
          /\ Len(ret.val) = 3
          /\ ret.val[3].token = QueryToken("StrLit", <<105, 110, 99, 111, 109, 112, 108, 101, 116, 101, 46, 116, 120, 116, 32, 115, 105, 122, 101, 58, 62, 49, 48, 48, 48>>)

----------------------------------------------------------------------------
(* Concurrent searches on one Searcher *)

\* the file list of the concurrent runs, in the order the importer reads it
ImportList ==
    <<[path |-> <<97>>, meta |-> Meta(Some(10), Some(20), None, 0)],
      [path |-> <<97, 47, 97>>, meta |-> Meta(Some(10), Some(10), Some(20), 0)],
      [path |-> <<98>>, meta |-> Meta(Some(30), Some(10), Some(20), 0)]>>

\* the trees an importer ends with after upserting files[k..] into t
RECURSIVE ImportFrom(_, _, _)
ImportFrom(t, files, k) ==
    IF k > Len(files) THEN {t}
    ELSE UNION {ImportFrom(o.tree, files, k + 1)
                   : o \in add_or_update_recursive(t, files[k].path, files[k].meta)}

\* the queries and sort fields of the concurrent callers
ThreadQueries == {<<>>, <<97>>}
ThreadFields == {None, Some("Filename"), Some("Size")}
ThreadOrders == {None, Some("Descending")}

\* Searcher::from_file_tree(tree) of the imported tree, no call made yet
InitBuilt ==
    /\ \E t \in ImportFrom(with_capacity, ImportList, 1) :
          /\ elements = t.elements
          /\ strbuf = t.strbuf
          /\ index = BigramIndex_new(t).index
          /\ num_elements = BigramIndex_new(t).num_elements
    /\ built = TRUE
    /\ sorter = Sorter_new
    /\ call = NoCall
    /\ ret = NoRet
    /\ postings_list = <<>>
    /\ cpl = [indices |-> <<>>, length |-> 0]
    /\ decoded = <<>>
    /\ NoThreads

\* the slot and the order of the sort_by call a thread is in
SlotOfThread(th) == SlotOf(th.sort_by[1])
OrderOfThread(th) == IF th.sort_order = None THEN "Ascending" ELSE th.sort_order[1]

\* Searcher::search up to the call of sort_by: the candidates are computed
\* from the tree and the index, which no call changes
SearchStart(t, query, by, order) ==
    /\ threads[t].pc = "idle"
    /\ threads' = [threads EXCEPT ![t] =
          [pc |-> IF search(TheTree, TheIndex, query).kind = "panic" THEN "panicked"
                  ELSE IF by = None THEN "done" ELSE "prepare",
           query |-> query, sort_by |-> by, sort_order |-> order,
           indices |-> search(TheTree, TheIndex, query).val]]
    /\ UNCHANGED <<treeVars, indexVars, call, ret, codecVars, mutex, cache>>

\* prepare_*_order: let mut order = self.*_order.lock().unwrap()
PrepareLock(t) ==
    /\ threads[t].pc = "prepare"
    /\ MutexFree(mutex[SlotOfThread(threads[t])])
    /\ mutex' = [mutex EXCEPT ![SlotOfThread(threads[t])] = Some(t)]
    /\ threads' = [threads EXCEPT ![t].pc = "check"]
    /\ UNCHANGED <<treeVars, indexVars, call, ret, codecVars, cache>>

\* prepare_*_order: if order.is_none(); a populated table is left alone and
\* the guard is dropped at the end of the function
PrepareCheck(t) ==
    /\ threads[t].pc = "check"
    /\ IF IsNone(sorter[SlotOfThread(threads[t])])
       THEN /\ threads' = [threads EXCEPT ![t].pc = "fill"]
            /\ UNCHANGED mutex
       ELSE /\ threads' = [threads EXCEPT ![t].pc = "lock"]
            /\ mutex' = Unlock(mutex, SlotOfThread(threads[t]))
    /\ UNCHANGED <<treeVars, indexVars, call, ret, codecVars, cache>>

\* prepare_*_order: sort, build the rank table, order.replace(table); the
\* guard is dropped at the end of the function
PrepareFill(t) ==
    /\ threads[t].pc = "fill"
    /\ \E sorted \in SortUnstableResults(TheTree, threads[t].sort_by[1]) :
          sorter' = [sorter EXCEPT ![SlotOfThread(threads[t])] =
                        Some(RankTable(TheTree, threads[t].sort_by[1], sorted))]
    /\ mutex' = Unlock(mutex, SlotOfThread(threads[t]))
    /\ threads' = [threads EXCEPT ![t].pc = "lock"]
    /\ UNCHANGED <<treeVars, built, index, num_elements, call, ret, codecVars, cache>>

\* sort_by: let order = self.*_order.lock().unwrap()
SortLock(t) ==
    /\ threads[t].pc = "lock"
    /\ MutexFree(mutex[SlotOfThread(threads[t])])
    /\ mutex' = [mutex EXCEPT ![SlotOfThread(threads[t])] = Some(t)]
    /\ threads' = [threads EXCEPT ![t].pc = "sort"]
    /\ UNCHANGED <<treeVars, indexVars, call, ret, codecVars, cache>>

\* sort_by: self.sort_by_order_list(elements, order.as_ref().unwrap(), order)
\* with the guard held; it is dropped at the end of the match arm
SortSlice(t) ==
    /\ threads[t].pc = "sort"
    /\ mutex' = Unlock(mutex, SlotOfThread(threads[t]))
    /\ IF sorter[SlotOfThread(threads[t])] = None
       THEN threads' = [threads EXCEPT ![t].pc = "panicked"]
       ELSE LET sorted_slice == sort_by_order_list(threads[t].indices,
                                                   sorter[SlotOfThread(threads[t])][1],
                                                   OrderOfThread(threads[t]))
            IN threads' = [threads EXCEPT ![t].pc = IF sorted_slice.kind = "panic"
                                                    THEN "panicked" ELSE "done",
                                          ![t].indices = sorted_slice.val]
    /\ UNCHANGED <<treeVars, indexVars, call, ret, codecVars, cache>>

\* the caller has taken the returned indices
SearchReturn(t) ==
    /\ threads[t].pc = "done"
    /\ threads' = [threads EXCEPT ![t] = IdleThread]
    /\ UNCHANGED <<treeVars, indexVars, call, ret, codecVars, mutex, cache>>

\* the steps of thread t inside Searcher::search
SearchStep(t) ==
    \/ PrepareLock(t)
    \/ PrepareCheck(t)
    \/ PrepareFill(t)
    \/ SortLock(t)
    \/ SortSlice(t)

NextThreads ==
    \/ \E t \in Threads, q \in ThreadQueries, f \in ThreadFields, o \in ThreadOrders :
          SearchStart(t, q, f, o)
    \/ \E t \in Threads : SearchStep(t)
    \/ \E t \in Threads : SearchReturn(t)

SpecThreads == InitBuilt /\ [][NextThreads]_vars

\* the same steps under fair scheduling: a thread that can take a step
\* takes it, and a thread that can acquire a lock again and again acquires it
SpecThreadsFair ==
    /\ SpecThreads
    /\ \A t \in Threads : WF_vars(PrepareCheck(t) \/ PrepareFill(t) \/ SortSlice(t))
    /\ \A t \in Threads : SF_vars(PrepareLock(t))
    /\ \A t \in Threads : SF_vars(SortLock(t))

----------------------------------------------------------------------------
(* Concurrency claims *)

\* C22: under any interleaving the rank table of a field is computed at most
\* once: a populated slot is never replaced or emptied, a thread that is
\* about to compute a table sees an empty slot, and a thread past its prepare
\* step finds the table present.
C22_RankTableComputedOnce ==
    [][/\ \A f \in SortFields :
             sorter[SlotOf(f)] # None => sorter'[SlotOf(f)] = sorter[SlotOf(f)]
       /\ \A t \in Threads :
             /\ threads'[t].pc = "fill" => sorter'[SlotOfThread(threads'[t])] = None
             /\ threads'[t].pc \in {"lock", "sort"} =>
                   sorter'[SlotOfThread(threads'[t])] # None]_vars

\* one thread is past its prepare step while another, inside the critical
\* section of the same field, is looking at the populated slot
C22_Witness ==
    \E t, u \in Threads :
        /\ t # u
        /\ threads[t].pc \in {"lock", "done"}
        /\ threads[u].pc = "check"
        /\ threads[t].sort_by = threads[u].sort_by
        /\ sorter[SlotOfThread(threads[u])] # None

\* C23: once a field's table is populated no thread waits for that field's
\* lock, and the subset sort runs without holding it.
C23_PopulatedTableReadWithoutLock ==
    \A t \in Threads :
        /\ (threads[t].pc \in {"prepare", "lock"} /\ sorter[SlotOfThread(threads[t])] # None) =>
              MutexFree(mutex[SlotOfThread(threads[t])])
        /\ threads[t].pc = "sort" => mutex[SlotOfThread(threads[t])] # Some(t)

\* C24: every concurrent search returns what the same call returns when it
\* runs alone on this Searcher, and none aborts.
C24_SearchesSerializable ==
    \A t \in Threads :
        /\ threads[t].pc # "panicked"
        /\ threads[t].pc = "done" =>
              [kind |-> "list", val |-> threads[t].indices]
                  \in {o.ret : o \in Searcher_search(sorter, TheTree, TheIndex, threads[t].query,
                                                     threads[t].sort_by, threads[t].sort_order)}

\* two threads have returned from searches sorted by the same field, one of
\* them descending, after racing for its table
C24_Witness ==
    \E t, u \in Threads :
        /\ t # u
        /\ threads[t].pc = "done" /\ threads[u].pc = "done"
        /\ threads[t].sort_by = Some("Size") /\ threads[u].sort_by = Some("Size")
        /\ threads[t].sort_order = None /\ threads[u].sort_order = Some("Descending")
        /\ Len(threads[t].indices) = 4
        /\ threads[u].indices = Reverse(threads[t].indices)

\* the locks thread t holds
LocksHeldBy(t) == {l \in LockNames : mutex[l] = Some(t)}

\* some thread can take a step of its call
SomeThreadCanStep ==
    \E t \in Threads :
        \/ threads[t].pc \in {"check", "fill", "sort"}
        \/ threads[t].pc \in {"prepare", "lock"} /\ MutexFree(mutex[SlotOfThread(threads[t])])

DateWords ==
    {<<>>, <<105, 110, 118, 97, 108, 105, 100>>, <<49, 50, 51, 97, 98, 99>>, <<110, 111, 116, 45, 97, 45, 100, 97, 116, 101>>, <<50, 48, 50, 51, 45, 97, 98, 99, 45, 100, 101, 102>>, <<97, 98, 99, 47, 100, 101, 102, 47, 103, 104, 105>>,
     <<32, 32, 32>>, <<50, 48, 50, 51, 45>>, <<47, 50, 48, 50, 51>>, <<50, 48, 50, 51, 47>>, <<97, 98, 99>>, <<117, 110, 107, 110, 111, 119, 110>>, <<85, 78, 75, 78, 79, 87, 78>>,
     <<83, 117, 110, 100, 97, 121>>, <<115, 97, 116>>, <<109, 97, 121>>, <<68, 101, 99, 101, 109, 98, 101, 114>>, <<116, 111, 100, 97, 121>>, <<76, 97, 115, 116, 32, 87, 101, 101, 107>>, <<110, 101, 120, 116, 121, 101, 97, 114>>,
     <<108, 97, 115, 116, 51, 100, 97, 121, 115>>, <<110, 101, 120, 116, 50, 119, 101, 101, 107, 115>>, <<99, 111, 109, 105, 110, 103, 49, 48, 115, 101, 99, 115>>, <<108, 97, 115, 116, 51>>, <<108, 97, 115, 116, 100, 97, 121, 115>>, <<51, 100, 97, 121, 115>>,
     <<50, 48, 50, 51, 45, 49, 50, 45, 50, 53, 32, 49, 50, 58, 51, 48, 58, 52, 53>>, <<50, 48, 50, 51, 45, 49, 51, 45, 50, 53, 32, 49, 50, 58, 51, 48, 58, 52, 53>>, <<50, 48, 50, 51, 45, 49, 50, 45, 50, 53, 32, 49, 50, 58, 51, 48>>,
     <<50, 48, 50, 51, 45, 49, 50, 45, 50, 53, 120>>, <<49, 50, 47, 50, 53, 47, 50, 48, 50, 51, 47, 49>>, <<50, 48, 50, 51, 47, 49, 50, 47, 50, 53>>, <<49, 47, 47, 50>>}

YearNumerals == {<<48>>, <<49, 50>>, <<49, 57, 54, 57>>, <<49, 57, 55, 48>>, <<50, 48, 50, 51>>, <<50, 48, 50, 52>>, <<57, 57, 57, 57>>, <<49, 48, 48, 48, 48>>, <<48, 50, 48, 50, 51>>, <<50, 49, 52, 55, 52, 56, 51, 54, 52, 56>>}
MonthNumerals == {<<48>>, <<49>>, <<48, 50>>, <<49, 50>>, <<49, 51>>}
DayNumerals == {<<48>>, <<49>>, <<50, 56>>, <<50, 57>>, <<51, 48>>, <<51, 49>>, <<51, 50>>}

DateInputs ==
    DateWords
    \cup {sign \o n : sign \in {<<>>, <<43>>, <<45>>}, n \in YearNumerals}
    \cup {y \o <<45>> \o m \o <<45>> \o d :
             y \in {<<50, 48, 50, 51>>, <<50, 48, 50, 52>>, <<49, 57, 48, 48>>}, m \in MonthNumerals, d \in DayNumerals}
    \cup {a \o <<47>> \o b \o <<47>> \o <<50, 48, 50, 51>> :
             a \in MonthNumerals \cup DayNumerals, b \in MonthNumerals \cup DayNumerals}
    \cup {a \o <<47>> \o b :
             a \in YearNumerals \cup MonthNumerals, b \in YearNumerals \cup MonthNumerals}

\* a caller holds a date text
InitDate ==
    /\ InitTree
    /\ built = FALSE
    /\ index = <<>>
    /\ num_elements = 0
    /\ sorter = Sorter_new
    /\ call \in {[op |-> "input", input |-> s] : s \in DateInputs}
    /\ ret = NoRet
    /\ postings_list = <<>>
    /\ cpl = [indices |-> <<>>, length |-> 0]
    /\ decoded = <<>>
    /\ NoThreads

\* QueryDate::from(input)
FromDate ==
    /\ call.op = "input"
    /\ call' = [op |-> "QueryDate::from", input |-> call.input]
    /\ ret' = [kind |-> "date", val |-> QueryDate_from(call.input)]
    /\ UNCHANGED <<treeVars, indexVars, codecVars, threadVars>>

SpecDate == InitDate /\ [][FromDate]_vars

(* Date claims *)

\* the text is an integer: an optional sign and digits
IsInteger(s) ==
    LET digits == IF s # <<>> /\ s[1] \in {43, 45} THEN Tail(s) ELSE s
    IN digits # <<>> /\ \A k \in 1..Len(digits) : digits[k] \in 48..57

\* an integer text whose value is a year of 1970..9999
IsYear(s) ==
    /\ IsInteger(s)
    /\ s[1] # 45
    /\ \E y \in 1970..9999 :
          \E zeros \in 0..Len(s) :
             LET digits == IF s[1] = 43 THEN Tail(s) ELSE s
             IN /\ zeros + 4 = Len(digits)
                /\ \A k \in 1..zeros : digits[k] = 48
                /\ DecimalValue(SubSeq(digits, zeros + 1, Len(digits))) = y

\* the ways to read s as three numerals of at most width digits joined by sep
ThreeNumerals(s, sep, width) ==
    {n \in {<<SubSeq(s, 1, p - 1), SubSeq(s, p + 1, q - 1), SubSeq(s, q + 1, Len(s))>> :
               p \in 1..Len(s), q \in 1..Len(s)} :
        /\ Len(n[1]) + Len(n[2]) + Len(n[3]) + 2 = Len(s)
        /\ s[Len(n[1]) + 1] = sep /\ s[Len(n[1]) + Len(n[2]) + 2] = sep
        /\ \A i \in 1..3 : Len(n[i]) \in 1..width /\ \A k \in 1..Len(n[i]) : n[i][k] \in 48..57}

\* year, month and day name a day of the calendar
IsDay(year, month, day) ==
    DecimalValue(month) \in 1..12
        /\ DecimalValue(day) \in 1..DaysInMonth(DecimalValue(year), DecimalValue(month))

\* s is year-month-day, optionally followed by a time of day, and names a day
IsDashedDate(s) ==
    \/ \E n \in ThreeNumerals(s, 45, 4) : Len(n[2]) <= 2 /\ Len(n[3]) <= 2 /\ IsDay(n[1], n[2], n[3])
    \/ /\ Len(s) > 9
       /\ SubSeq(s, Len(s) - 8, Len(s)) = <<32, 49, 50, 58, 51, 48, 58, 52, 53>>
       /\ \E n \in ThreeNumerals(SubSeq(s, 1, Len(s) - 9), 45, 4) :
             Len(n[2]) <= 2 /\ Len(n[3]) <= 2 /\ IsDay(n[1], n[2], n[3])

\* s is month/day/year or day/month/year and names a day
IsSlashedDate(s) ==
    \E n \in ThreeNumerals(s, 47, 4) :
        /\ Len(n[1]) <= 2 /\ Len(n[2]) <= 2
        /\ IsDay(n[3], n[1], n[2]) \/ IsDay(n[3], n[2], n[1])

\* the two numerals of a text of the form A/B
TwoNumerals(s) ==
    {n \in {<<SubSeq(s, 1, p - 1), SubSeq(s, p + 1, Len(s))>> : p \in 1..Len(s)} :
        /\ Len(n[1]) + 1 + Len(n[2]) = Len(s)
        /\ s[Len(n[1]) + 1] = 47
        /\ \A i \in 1..2 : n[i] # <<>> /\ \A k \in 1..Len(n[i]) : n[i][k] \in 48..57}

\* one side of A/B is a year of 1970..9999 and the other a month of 1..12
IsYearMonth(n) ==
    /\ Len(n[1]) <= 4 /\ Len(n[2]) <= 4
    /\ \/ DecimalValue(n[1]) \in 1970..9999 /\ DecimalValue(n[2]) \in 1..12
       \/ DecimalValue(n[2]) \in 1970..9999 /\ DecimalValue(n[1]) \in 1..12

\* the text has one of the recognized shapes
IsRecognized(s) ==
    \/ QueryDateNamed(s).kind # "Range"
    \/ s \in SpecialConstants
    \/ RelativeCaptures(s) # {}
    \/ IsYear(s)
    \/ IsDashedDate(s)
    \/ IsSlashedDate(s)
    \/ \E n \in TwoNumerals(s) : IsYearMonth(n)

QueryList ==
    <<[path |-> <<97, 98>>, meta |-> Meta(Some(10), Some(20), Some(5), 0)],
      [path |-> <<97, 98, 47, 97, 98, 99>>, meta |-> Meta(Some(20), Some(10), Some(20), 0)],
      [path |-> <<98>>, meta |-> Meta(Some(30), Some(30), Some(10), 0)]>>

\* queries of no, one, two and more characters, with and without a bigram
\* or a character of the names
SortedQueries ==
    {<<>>, <<66>>, <<122>>, <<65, 66>>, <<122, 122>>, <<97, 66, 99>>, <<97, 98, 122>>, <<122, 97, 98>>}

\* Searcher::from_file_tree(tree) of the imported tree, no call made yet
InitQuery ==
    /\ \E t \in ImportFrom(with_capacity, QueryList, 1) :
          /\ elements = t.elements
          /\ strbuf = t.strbuf
          /\ index = BigramIndex_new(t).index
          /\ num_elements = BigramIndex_new(t).num_elements
    /\ built = TRUE
    /\ sorter = Sorter_new
    /\ call = NoCall
    /\ ret = NoRet
    /\ postings_list = <<>>
    /\ cpl = [indices |-> <<>>, length |-> 0]
    /\ decoded = <<>>
    /\ NoThreads

\* Searcher::search(query, sort_by, sort_order), run to its end by one caller
SearchSorted(query, by, order) ==
    /\ \E o \in Searcher_search(sorter, TheTree, TheIndex, query, by, order) :
          /\ sorter' = o.sorter
          /\ ret' = o.ret
    /\ call' = [op |-> "Searcher::search", query |-> query, sort_by |-> by, sort_order |-> order]
    /\ UNCHANGED <<treeVars, built, index, num_elements, codecVars, threadVars>>

NextQuery ==
    \E q \in SortedQueries, f \in {None} \cup {Some(x) : x \in SortFields},
       o \in {None} \cup {Some(x) : x \in SortOrders} :
        SearchSorted(q, f, o)

SpecQuery == InitQuery /\ [][NextQuery]_vars

(* Search claims *)

C27_UpsertFrame ==
    [][call'.op = "upsert" =>
          /\ Len(elements') = Len(elements) + call'.created
          /\ SubSeq(strbuf', 1, Len(strbuf)) = strbuf
          /\ \A i \in 1..Len(elements) :
                /\ elements'[i].filename = elements[i].filename
                /\ filename_as_str(Tree(elements', strbuf'), elements'[i].filename)
                      = filename_as_str(TheTree, elements[i].filename)
                /\ elements'[i].parent = elements[i].parent
                /\ i - 1 # ret'.val =>
                      /\ elements'[i].size = elements[i].size
                      /\ elements'[i].date_modified = elements[i].date_modified
                      /\ elements'[i].date_created = elements[i].date_created
                      /\ elements'[i].attributes = elements[i].attributes
          /\ \A i \in Len(elements) + 1..Len(elements') :
                i - 1 # ret'.val =>
                   /\ elements'[i].size = None
                   /\ elements'[i].date_modified = None
                   /\ elements'[i].date_created = None
                   /\ elements'[i].attributes = 0]_vars

\* an upsert has created its final element next to an older element that
\* still carries the metadata an earlier upsert gave it
C27_Witness ==
    /\ call.op = "upsert"
    /\ call.created >= 1
    /\ \E i \in 2..Len(elements) :
          /\ i - 1 < ret.val
          /\ elements[i].size # None
          /\ elements[i].attributes # 0

\* the element reached from i by following n parent links
RECURSIVE Ancestor(_, _)
Ancestor(i, n) == IF n = 0 THEN i ELSE Ancestor(elements[i + 1].parent, n - 1)

\* the number of times index i occurs in the children list of element j
Occurrences(i, j) ==
    Cardinality({k \in 1..Len(elements[j + 1].children) : elements[j + 1].children[k] = i})

\* C28: after upserts and add_child calls with an empty children list every
\* non-root element occurs exactly once in its parent's children list and in
\* no other list, the root occurs in no list, and the parent links of every
\* element lead to index 0.
C28_ParentChildConsistent ==
    /\ \A i \in 1..Len(elements) - 1 :
          \A j \in 0..Len(elements) - 1 :
             Occurrences(i, j) = IF j = elements[i + 1].parent THEN 1 ELSE 0
    /\ \A j \in 0..Len(elements) - 1 : Occurrences(0, j) = 0
    /\ \A i \in 0..Len(elements) - 1 : Ancestor(i, Len(elements)) = 0

\* add_child has given an element a second child of the same name, below the
\* top level, in a tree that upserts built
C28_Witness ==
    /\ call.op = "add_child"
    /\ call.parent # 0
    /\ \E i, j \in 1..Len(elements) - 1 :
          /\ i < j
          /\ elements[i + 1].parent = call.parent /\ elements[j + 1].parent = call.parent
          /\ FilenameOf(TheTree, i) = FilenameOf(TheTree, j)

(* The web search handler *)

\* the request parameters of the concurrent requests
WebQueries == {<<>>, <<97>>, <<65>>}
WebSortBys == {None, Some(<<115, 105, 122, 101>>), Some(<<83, 105, 122, 101>>)}
WebSortOrders == {None, Some(<<100, 101, 115, 99, 101, 110, 100, 105, 110, 103>>)}

\* match sort_by.as_deref(): the four field names, anything else is None
SortFieldOf(name) ==
    CASE name = Some(<<102, 105, 108, 101, 110, 97, 109, 101>>) -> Some("Filename")
      [] name = Some(<<100, 97, 116, 101, 95, 109, 111, 100, 105, 102, 105, 101, 100>>) -> Some("DateModified")
      [] name = Some(<<100, 97, 116, 101, 95, 99, 114, 101, 97, 116, 101, 100>>) -> Some("DateCreated")
      [] name = Some(<<115, 105, 122, 101>>) -> Some("Size")
      [] OTHER -> None

\* match sort_order.as_deref(): the two order names, anything else is None
SortOrderOf(name) ==
    CASE name = Some(<<97, 115, 99, 101, 110, 100, 105, 110, 103>>) -> Some("Ascending")
      [] name = Some(<<100, 101, 115, 99, 101, 110, 100, 105, 110, 103>>) -> Some("Descending")
      [] OTHER -> None

\* SearchCache { query, indices, sort_by, sort_order }
SearchCache(query, indices, by, order) ==
    [query |-> query, indices |-> indices, sort_by |-> by, sort_order |-> order]

\* an entry is cached under any key at all
CacheHitAnyKey(c, th) == c # None

\* the test of the cached entry against the request's query, field and order
CacheHit(c, th) ==
    /\ c # None
    /\ c[1].query = th.query
    /\ c[1].sort_by = th.sort_by
    /\ c[1].sort_order = th.sort_order

\* the handler is entered: the query is lowercased, the sort parameters parsed
WebStart(t, query, by, order) ==
    /\ threads[t].pc = "idle"
    /\ threads' = [threads EXCEPT ![t] =
          [pc |-> "cache_lock", query |-> to_lowercase(query), sort_by |-> SortFieldOf(by),
           sort_order |-> SortOrderOf(order), indices |-> <<>>]]
    /\ UNCHANGED <<treeVars, indexVars, call, ret, codecVars, mutex, cache>>

\* let mut cache_guard = last_search_cache.search.lock().unwrap()
WebLock(t) ==
    /\ threads[t].pc = "cache_lock"
    /\ MutexFree(mutex["search"])
    /\ mutex' = [mutex EXCEPT !["search"] = Some(t)]
    /\ threads' = [threads EXCEPT ![t].pc = "cache_check"]
    /\ UNCHANGED <<treeVars, indexVars, call, ret, codecVars, cache>>

\* the cache test: on a hit the guard is kept; on a miss it is dropped and
\* Searcher::search starts, up to its sort
WebCheck(t) ==
    /\ threads[t].pc = "cache_check"
    /\ IF CacheHit(cache, threads[t])
       THEN /\ threads' = [threads EXCEPT ![t].pc = "respond"]
            /\ UNCHANGED mutex
       ELSE /\ mutex' = Unlock(mutex, "search")
            /\ threads' = [threads EXCEPT
                  ![t].pc = IF search(TheTree, TheIndex, threads[t].query).kind = "panic"
                            THEN "panicked"
                            ELSE IF threads[t].sort_by = None THEN "done" ELSE "prepare",
                  ![t].indices = search(TheTree, TheIndex, threads[t].query).val]
    /\ UNCHANGED <<treeVars, indexVars, call, ret, codecVars, cache>>

\* after the search: the lock is taken again and the entry replaced by the
\* request's own key and indices
WebStore(t) ==
    /\ threads[t].pc = "done"
    /\ MutexFree(mutex["search"])
    /\ mutex' = [mutex EXCEPT !["search"] = Some(t)]
    /\ cache' = Some(SearchCache(threads[t].query, threads[t].indices,
                                 threads[t].sort_by, threads[t].sort_order))
    /\ threads' = [threads EXCEPT ![t].pc = "respond", ![t].indices = <<>>]
    /\ UNCHANGED <<treeVars, indexVars, call, ret, codecVars>>

\* the response is built from result_indices, which points into the cached
\* entry; the guard is dropped when the handler returns
WebRespond(t) ==
    /\ threads[t].pc = "respond"
    /\ threads' = [threads EXCEPT
          ![t].pc = IF cache = None THEN "panicked" ELSE "responded",
          ![t].indices = IF cache = None THEN <<>> ELSE cache[1].indices]
    /\ mutex' = Unlock(mutex, "search")
    /\ UNCHANGED <<treeVars, indexVars, call, ret, codecVars, cache>>

\* the client has the response
WebReturn(t) ==
    /\ threads[t].pc = "responded"
    /\ threads' = [threads EXCEPT ![t] = IdleThread]
    /\ UNCHANGED <<treeVars, indexVars, call, ret, codecVars, mutex, cache>>

NextWeb ==
    \/ \E t \in Threads, q \in WebQueries, f \in WebSortBys, o \in WebSortOrders :
          WebStart(t, q, f, o)
    \/ \E t \in Threads : WebLock(t)
    \/ \E t \in Threads : WebCheck(t)
    \/ \E t \in Threads : SearchStep(t)
    \/ \E t \in Threads : WebStore(t)
    \/ \E t \in Threads : WebRespond(t)
    \/ \E t \in Threads : WebReturn(t)

SpecWeb == InitBuilt /\ [][NextWeb]_vars

(* Web handler claims *)

\* the results of Searcher::search for a key on the Searcher as it is now
SearchResultsFor(query, by, order) ==
    {o.ret.val : o \in Searcher_search(sorter, TheTree, TheIndex, query, by, order)}

\* C29: under any interleaving of requests the indices a response is built
\* from are the Searcher::search result for the request's own lowercased
\* query, sort field and sort order, and the indices of the cached entry are
\* the result for the entry's own key.
C29_CacheServesOwnKey ==
    /\ \A t \in Threads :
          /\ threads[t].pc # "panicked"
          /\ threads[t].pc = "responded" =>
                threads[t].indices
                    \in SearchResultsFor(threads[t].query, threads[t].sort_by, threads[t].sort_order)
    /\ cache # None =>
          cache[1].indices \in SearchResultsFor(cache[1].query, cache[1].sort_by, cache[1].sort_order)

\* a request sorted by size has been answered while the other request, for a
\* different query, is waiting for the cache lock before its test or after
\* its search
C29_Witness ==
    \E t, u \in Threads :
        /\ t # u
        /\ threads[t].pc = "responded"
        /\ threads[t].sort_by = Some("Size")
        /\ threads[t].indices # <<>>
        /\ threads[u].pc \in {"cache_lock", "done"}
        /\ threads[u].query # threads[t].query

====
